---- MODULE Spec2Model ----
(***************************************************************************)
(* OpenSwarm: the recursive @mention routing engine (Orchestrator) and the *)
(* streaming chat-completion client (OpenClawConnection).                  *)
(*                                                                         *)
(* A text is a sequence of tokens.  A token that is an agent name stands   *)
(* for the match "@name" of the mention regex, Space is white space, any   *)
(* other token is ordinary text.                                           *)
(***************************************************************************)
EXTENDS Integers, Sequences, FiniteSets, TLC

\* ---------------------------------------------------------------- bounds
MaxDepth == 2          \* config.maxMentionDepth ranges over 0..MaxDepth
CapDepth == 3          \* config.maxMentionDepth of the fan-out configuration
MaxFrames == 4         \* frames of the stream of a single sendMessage call
MaxCalls == 2          \* sendMessage calls on the connection of the history runs
MaxHistFrames == 2     \* frames per stream in the history runs
MaxTextLen == 4        \* tokens of a text given to extractMentions
MaxMentions == 3       \* mentions the agents of the group chat make per user message
MaxBufferText == 2     \* tokens of the text of a buffer of the ResponseBuffer runs

\* ------------------------------------------------------ program constants
MAX_TOTAL_MENTIONS == 20

\* ------------------------------------------------------------ vocabulary
Master == "master"
Alice == "alice"
Bob == "bob"
Carol == "carol"
Word == "w"
Other == "v"
Space == " "
User == "user"
Constructor == "constructor"
BobCapital == "Bob"
NoText == <<>>         \* sendMessage returned null (it never returns "")

SmallTeam == {Master, Alice, Bob}
BigTeam == {Master, Alice, Bob, Carol}

VARIABLES
    config,              \* SwarmConfig: agents, master, maxMentionDepth
    connections,         \* Orchestrator.connections (names with a connected client)
    connectingPromises,  \* Orchestrator.connectingPromises (names with a pending attempt)
    checks,              \* per name: OpenClawConnection.connect calls in flight
    sending,             \* per name: OpenClawConnection.sendMessage calls in flight
    chat,                \* the activation of Orchestrator.chat
    globalMentionCount,  \* globalMentionCount.value of the turn
    br,                  \* activations of processMentionRecursive, by lineage
    ev,                  \* events fired so far (counters)
    systemPrompt,        \* one OpenClawConnection: config.systemPrompt is set
    errorListener,       \* ... its user has an 'error' listener attached
    history,             \* ... OpenClawConnection.history
    calls,               \* ... its sendMessage activations, in call order
    extraction,          \* one call of Orchestrator.extractMentions
    probe,               \* the answer to the latest OpenClawConnection.connect
    session,             \* two connections of one agent and a saved history
    gc,                  \* the GroupChat engine
    rb,                  \* one ResponseBuffer
    heard,               \* per activation: the activations whose deltas it buffered
    closed               \* the ensureConnection calls made when close() last ran

ovars == <<config, connections, connectingPromises, checks, sending, chat,
           globalMentionCount, br, ev>>

cvars == <<systemPrompt, errorListener, history, calls>>

xvars == <<extraction>>

pvars == <<probe>>

hvars == <<session>>

gvars == <<gc>>

bvars == <<rb>>

dvars == <<heard>>

kvars == <<closed>>

\* ------------------------------------------------------------------ texts
Min(S) == CHOOSE x \in S : \A y \in S : x <= y

RECURSIVE TrimLeft(_)
TrimLeft(t) ==
    IF t # <<>> /\ Head(t) = Space THEN TrimLeft(Tail(t)) ELSE t

RECURSIVE TrimRight(_)
TrimRight(t) ==
    IF t # <<>> /\ t[Len(t)] = Space THEN TrimRight(SubSeq(t, 1, Len(t) - 1)) ELSE t

\* A trim of the leading white space alone (trimStart).
TrimStart(t) == TrimLeft(t)

Trim(t) == TrimRight(TrimLeft(t))

\* The loop of extractMentions from match position i on; seen is the set of
\* agents already taken.
RECURSIVE ExtractFrom(_, _, _, _, _)
ExtractFrom(text, names, excludeAgent, i, seen) ==
    IF i > Len(text) THEN <<>>
    ELSE IF text[i] \notin names
    THEN ExtractFrom(text, names, excludeAgent, i + 1, seen)
    ELSE IF text[i] = excludeAgent \/ text[i] \in seen
    THEN ExtractFrom(text, names, excludeAgent, i + 1, seen)
    ELSE LET later == {j \in (i + 1)..Len(text) : text[j] \in names}
             end == IF later = {} THEN Len(text) + 1 ELSE Min(later)
             message == Trim(SubSeq(text, i + 1, end - 1))
             rest == ExtractFrom(text, names, excludeAgent, i + 1, seen \cup {text[i]})
         IN  IF message # <<>>
             THEN <<[agent |-> text[i], message |-> message]>> \o rest
             ELSE rest

extractMentions(text, excludeAgent) ==
    ExtractFrom(text, config.agents, excludeAgent, 1, {})

\* The text "@a1 w @a2 w ..." for a sequence of agent names.
RECURSIVE MentionText(_)
MentionText(as) ==
    IF as = <<>> THEN <<>> ELSE <<Head(as), Word>> \o MentionText(Tail(as))

\* Replies of the small team: plain text, or one or two directed messages.
SmallReplies ==
    {<<Word>>, MentionText(<<Master>>), MentionText(<<Alice>>), MentionText(<<Bob>>),
     MentionText(<<Alice, Bob>>), MentionText(<<Bob, Alice>>)}

\* The reply of the fan-out configuration: a message to everybody.
FanOutReply == MentionText(<<Master, Alice, Bob, Carol>>)

\* No call of extractMentions is modelled.
NoExtraction == [pc |-> "idle", text |-> <<>>, excludeAgent |-> "", mentions |-> <<>>]

\* ------------------------------------------------------------------ state
Parent(p) == SubSeq(p, 1, Len(p) - 1)

Finished(pc) == pc \in {"done", "failed"}

State ==
    [connections |-> connections, connectingPromises |-> connectingPromises,
     checks |-> checks, sending |-> sending, chat |-> chat,
     globalMentionCount |-> globalMentionCount, br |-> br, ev |-> ev,
     probe |-> probe]

Commit(s) ==
    /\ connections' = s.connections
    /\ connectingPromises' = s.connectingPromises
    /\ checks' = s.checks
    /\ sending' = s.sending
    /\ chat' = s.chat
    /\ globalMentionCount' = s.globalMentionCount
    /\ br' = s.br
    /\ ev' = s.ev
    /\ probe' = s.probe
    /\ UNCHANGED <<config, cvars, xvars, hvars, gvars, bvars, dvars, kvars>>

\* close() has not been called.
NotClosed == -1

\* ------------------------------------------------- Orchestrator.ensureConnection
\* The version without the connectingPromises lookup.
ensureConnectionNoDedup(s, name) ==
    IF name \in s.connections THEN [s |-> s, res |-> "existing"]
    ELSE IF name \notin config.agents THEN [s |-> s, res |-> "null"]
    ELSE [s |-> [s EXCEPT !.connectingPromises = @ \cup {name},
                          !.checks[name] = @ + 1],
          res |-> "pending"]

\* res: "existing" (a connected client is returned), "pending" (the caller
\* awaits the attempt of this name), "null" (no such agent).
ensureConnection(s, name) ==
    IF name \in s.connections THEN [s |-> s, res |-> "existing"]
    ELSE IF name \in s.connectingPromises THEN [s |-> s, res |-> "pending"]
    ELSE IF name \notin config.agents THEN [s |-> s, res |-> "null"]
    ELSE [s |-> [s EXCEPT !.connectingPromises = @ \cup {name},
                          !.checks[name] = @ + 1],
          res |-> "pending"]

\* OpenClawConnection.sendMessage up to its first await (the fetch).
startSend(s, name) == [s EXCEPT !.sending[name] = @ + 1]

\* sendMessage settles (returns or throws).
endSend(s, name) == [s EXCEPT !.sending[name] = @ - 1]


\* ------------------------------------------------------------ activations
\* The code runs on one event loop.  An activation is suspended only in the
\* network calls (the fetch of connect, the fetch and the reads of
\* sendMessage); what runs between two of them, continuations of settled
\* promises included, is one step.  The position of an activation is
\*   "connecting"  awaiting ensureConnection
\*   "sending"     awaiting its first sendMessage
\*   "waiting"     awaiting Promise.all of its children
\*   "synth"       awaiting the follow-up sendMessage
\*   "done"        returned text (thread_end fired)
\*   "failed"      returned null (thread_end fired)
\*   "thrown"      rejected (no thread_end)
\* and a lineage <<a1, ..., ak>> names the activation for ak that was
\* dispatched by the one for a(k-1), ..., dispatched by chat.  chat keeps the
\* activations of its current round only.
Max(a, b) == IF a >= b THEN a ELSE b

\* No follow-up message was sent.
NoFollowUp == [to |-> "", parts |-> <<>>]

ConnectError == "Failed to connect"
NoResponse == "No response"

\* error is the error of the activation's entry in its cohort's ResponseBuffer
\* ("" when undefined), followUp the synthesis message it sent.
NewBranch(agent, parentAgent, depth, visited, pc) ==
    [agent |-> agent, parentAgent |-> parentAgent, depth |-> depth,
     visited |-> visited, pc |-> pc, result |-> NoText,
     wanted |-> <<>>, kids |-> <<>>,
     error |-> IF pc = "failed" THEN ConnectError ELSE "",
     followUp |-> NoFollowUp]

\* this.fire(event) for the events of the turn (error, parallel_start,
\* parallel_end, synthesis_start, end): the trace of their types.
fire(s, type) == [s EXCEPT !.ev.trace = Append(@, type)]

\* processMentionRecursive from its call to its first suspension: thread_start,
\* ensureConnection and, when a connected client comes back at once, the start
\* of sendMessage.
startBranch(s, p, agent, parentAgent, depth, visited) ==
    LET s0 == [s EXCEPT !.ev.dispatched = @ + 1,
                        !.ev.deepest = Max(@, depth)]
        r == ensureConnection(s0, agent)
    IN  CASE r.res = "existing" ->
               [startSend(r.s, agent) EXCEPT
                   !.br = (p :> NewBranch(agent, parentAgent, depth, visited, "sending")) @@ @]
          [] r.res = "pending" ->
               [r.s EXCEPT
                   !.br = (p :> NewBranch(agent, parentAgent, depth, visited, "connecting")) @@ @]
          [] OTHER ->
               [r.s EXCEPT
                   !.br = (p :> NewBranch(agent, parentAgent, depth, visited, "failed")) @@ @]

\* mentions.map((m) => this.processMentionRecursive(m, ...)): the children
\* start one after the other, in mention order.
RECURSIVE dispatch(_, _, _, _, _, _, _)
dispatch(s, p, agents, parentAgent, depth, visited, i) ==
    IF i > Len(agents) THEN s
    ELSE dispatch(startBranch(s, Append(p, agents[i]), agents[i], parentAgent, depth, visited),
                  p, agents, parentAgent, depth, visited, i + 1)

\* buffer.complete, thread_end, return result.
complete(s, p, result) ==
    [s EXCEPT !.br[p].pc = "done", !.br[p].result = result]

\* buffer.fail, thread_end, return null.
fail(s, p, error) ==
    [s EXCEPT !.br[p].pc = "failed", !.br[p].result = NoText, !.br[p].error = error]

\* chat returns without firing 'end'.
chatEndNoEvent(s) == [s EXCEPT !.chat.pc = "ended"]

\* this.fire({ type: 'end' }) at the end of chat.
chatEnd(s) == fire([s EXCEPT !.chat.pc = "ended", !.ev.end = @ + 1], "end")

Replies(s, p, kids) ==
    SelectSeq(kids, LAMBDA k : s.br[Append(p, k)].result # NoText)

\* The follow-up message with a part for every child, text or not.
followUpAll(s, p, kids, agent) ==
    [to |-> agent,
     parts |-> [i \in 1..Len(kids) |->
                   [agent |-> kids[i], text |-> s.br[Append(p, kids[i])].result]]]

\* `[Thread] ${replies.join('\n\n[Thread] ')}` with the replies
\* `@${agent} replied: ${result}`, for conn.sendMessage of the agent.
followUp(s, p, kids, agent) ==
    LET replied == Replies(s, p, kids)
    IN  [to |-> agent,
         parts |-> [i \in 1..Len(replied) |->
                       [agent |-> replied[i], text |-> s.br[Append(p, replied[i])].result]]]

\* The results of parallel_end: agent, content and the error of the buffer.
threadResults(s, kids) ==
    [i \in 1..Len(kids) |->
        [agent |-> kids[i], content |-> s.br[<<kids[i]>>].result,
         error |-> s.br[<<kids[i]>>].error]]

\* A race instead of Promise.all: the first child to settle resumes the caller.
AnySettled(s, p, kids) ==
    \E i \in 1..Len(kids) : Finished(s.br[Append(p, kids[i])].pc)

\* A Promise.all that never resumes its caller.
NeverSettled(s, p, kids) == FALSE

\* await Promise.all(children) resumes once every child has settled.
AllSettled(s, p, kids) ==
    \A i \in 1..Len(kids) : Finished(s.br[Append(p, kids[i])].pc)

\* chat after its Promise.all: parallel_end, the synthesis message, the
\* follow-up send to the master.
rootJoin(s) ==
    IF s.chat.pc # "waiting" \/ ~AllSettled(s, <<>>, s.chat.kids) THEN s
    ELSE LET s1 == fire([s EXCEPT !.chat.results = threadResults(s, s.chat.kids)],
                        "parallel_end")
         IN  IF Replies(s, <<>>, s.chat.kids) = <<>> THEN chatEnd(s1)
             ELSE LET m == followUp(s, <<>>, s.chat.kids, config.master)
                      s2 == fire([s1 EXCEPT !.chat.pc = "synth", !.chat.followUp = m],
                                 "synthesis_start")
                  IN  startSend(s2, m.to)

\* The continuation of the activation at p after its Promise.all: the
\* follow-up send to its own agent, or its completion, which may in turn
\* resume its caller.
RECURSIVE branchJoin(_, _)
branchJoin(s, p) ==
    IF p = <<>> THEN rootJoin(s)
    ELSE LET b == s.br[p] IN
         IF b.pc # "waiting" \/ ~AllSettled(s, p, b.kids) THEN s
         ELSE IF Replies(s, p, b.kids) # <<>>
         THEN LET m == followUp(s, p, b.kids, b.agent)
              IN  startSend([s EXCEPT !.br[p].pc = "synth", !.br[p].followUp = m], m.to)
         ELSE branchJoin(complete(s, p, b.result), Parent(p))

\* An activation rejects: the Promise.all of its caller rejects at once, and
\* so on up to chat.  The other children keep running.
RECURSIVE reject(_, _)
reject(s, p) ==
    IF p = <<>>
    THEN IF s.chat.pc = "waiting" THEN [s EXCEPT !.chat.pc = "rejected"] ELSE s
    ELSE LET b == s.br[p] IN
         IF b.pc = "waiting" THEN reject([s EXCEPT !.br[p].pc = "thrown"], Parent(p))
         ELSE s

throw(s, p) == reject([s EXCEPT !.br[p].pc = "thrown"], Parent(p))

\* The child mentions without the filter on the visited set.
childMentionsNoVisited(result, agent, visited) ==
    extractMentions(result, agent)

\* branchVisited and childMentions of processMentionRecursive.
childMentions(result, agent, visited) ==
    LET branchVisited == visited \cup {agent}
    IN  SelectSeq(extractMentions(result, agent),
                  LAMBDA m : m.agent \notin branchVisited)

\* The guard with depth <= maxMentionDepth.
mayDispatchOffByOne(s, depth, n) ==
    /\ n > 0
    /\ depth <= config.maxMentionDepth
    /\ s.globalMentionCount + n <= MAX_TOTAL_MENTIONS

\* The guard without the safety valve.
mayDispatchNoCap(s, depth, n) ==
    /\ n > 0
    /\ depth < config.maxMentionDepth

\* The guard without the depth limit.
mayDispatchAnyDepth(s, depth, n) ==
    /\ n > 0
    /\ s.globalMentionCount + n <= MAX_TOTAL_MENTIONS

\* The guard of processMentionRecursive on dispatching n child mentions.
mayDispatch(s, depth, n) ==
    /\ n > 0
    /\ depth < config.maxMentionDepth
    /\ s.globalMentionCount + n <= MAX_TOTAL_MENTIONS

\* A lost update: the counter is set from a value read before the siblings
\* counted theirs.
addMentionsStale(s, n) == [s EXCEPT !.globalMentionCount = n]

\* globalMentionCount.value += n
addMentions(s, n) == [s EXCEPT !.globalMentionCount = @ + n]

\* One visited set for the whole turn: every agent dispatched so far.
branchVisitedShared(s, p) ==
    {config.master} \cup {s.br[q].agent : q \in DOMAIN s.br}

\* const branchVisited = new Set(visited); branchVisited.add(mention.agent)
branchVisited(s, p) == s.br[p].visited \cup {s.br[p].agent}

\* processMentionRecursive after its first sendMessage returned text.
branchAfterSend(s, p, result) ==
    LET b == s.br[p]
        cm == childMentions(result, b.agent, branchVisited(s, p))
        names == [i \in 1..Len(cm) |-> cm[i].agent]
        s0 == [s EXCEPT !.br[p].wanted = names, !.br[p].result = result]
    IN  IF mayDispatch(s, b.depth, Len(cm))
        THEN LET s1 == [addMentions(s0, Len(cm)) EXCEPT
                                  !.br[p].pc = "waiting",
                                  !.br[p].kids = names]
             IN  branchJoin(dispatch(s1, p, names, b.agent, b.depth + 1,
                                     branchVisited(s, p), 1), p)
        ELSE branchJoin(complete(s0, p, result), Parent(p))

\* The loop that ends after its first round.
loopBreakAfterFirstRound(s, n) == n = 0 \/ s.chat.mentionRound >= 1

\* if (mentions.length === 0 || mentionRound >= this.config.maxMentionDepth) break
loopBreak(s, n) == n = 0 \/ s.chat.mentionRound >= config.maxMentionDepth

\* The while loop of chat, entered with lastText.  wanted holds the agents
\* of the mentions found in lastText, none when there is no text to scan.
chatLoop(s, lastText) ==
    IF lastText = NoText THEN chatEnd([s EXCEPT !.chat.wanted = <<>>])
    ELSE LET mentions == extractMentions(lastText, config.master)
             names == [i \in 1..Len(mentions) |-> mentions[i].agent]
             s0 == [s EXCEPT !.chat.wanted = names]
         IN  IF loopBreak(s, Len(mentions))
             THEN chatEnd(s0)
             ELSE LET s1 == [s0 EXCEPT !.chat.mentionRound = @ + 1] IN
                  IF s1.globalMentionCount + Len(mentions) > MAX_TOTAL_MENTIONS
                  THEN chatEnd(s1)
                  ELSE LET s2 == [addMentions(s1, Len(mentions)) EXCEPT
                                            !.chat.pc = "waiting",
                                            !.chat.kids = names,
                                            !.chat.results = <<>>,
                                            !.chat.followUp = NoFollowUp,
                                            !.br = <<>>]
                       IN  rootJoin(dispatch(fire(s2, "parallel_start"), <<>>, names,
                                             config.master, 1, {config.master}, 1))

\* --------------------------------------------------------------- actions
\* chat(userMessage) is called.
ChatStart ==
    /\ chat.pc = "idle"
    /\ LET r == ensureConnection(State, config.master) IN
       Commit(CASE r.res = "existing" ->
                     startSend([r.s EXCEPT !.chat.pc = "sending"], config.master)
                [] r.res = "pending" -> [r.s EXCEPT !.chat.pc = "connecting"]
                [] OTHER -> chatEnd(fire(r.s, "error")))

Awaiting(n) == {p \in DOMAIN br : br[p].pc = "connecting" /\ br[p].agent = n}

\* conn.connect() resolved: the client is registered and every caller
\* awaiting the attempt goes on to its sendMessage.
connectOK(s, n) ==
    LET w == {p \in DOMAIN s.br : s.br[p].pc = "connecting" /\ s.br[p].agent = n}
        c == IF s.chat.pc = "connecting" /\ n = config.master THEN 1 ELSE 0
    IN  [s EXCEPT
            !.connections = @ \cup {n},
            !.connectingPromises = @ \ {n},
            !.checks[n] = @ - 1,
            !.sending[n] = @ + Cardinality(w) + c,
            !.chat.pc = IF c = 1 THEN "sending" ELSE @,
            !.br = [p \in DOMAIN s.br |->
                       IF p \in w THEN [s.br[p] EXCEPT !.pc = "sending"] ELSE s.br[p]]]

\* The reachability check of n succeeds.
ConnectOK(n) ==
    /\ checks[n] > 0
    /\ Commit(connectOK(State, n))

\* The callers awaiting a failed attempt reject instead of returning null.
RECURSIVE rejectAll(_, _)
rejectAll(s, ps) ==
    IF ps = {} THEN s
    ELSE LET p == CHOOSE q \in ps : TRUE
         IN  rejectAll(throw(s, p), ps \ {p})

\* The callers awaiting a failed attempt have returned null: their callers go
\* on when that settles their Promise.all.
RECURSIVE joinAll(_, _)
joinAll(s, ps) ==
    IF ps = {} THEN s
    ELSE LET p == CHOOSE q \in ps : TRUE
         IN  joinAll(branchJoin(s, Parent(p)), ps \ {p})

\* The failed attempt stays in connectingPromises.
connectFailKeepPending(s, n) ==
    LET w == {p \in DOMAIN s.br : s.br[p].pc = "connecting" /\ s.br[p].agent = n}
        s1 == [s EXCEPT
                  !.checks[n] = @ - 1,
                  !.br = [p \in DOMAIN s.br |->
                             IF p \in w
                             THEN [s.br[p] EXCEPT !.pc = "failed", !.error = ConnectError]
                             ELSE s.br[p]]]
        s2 == IF s.chat.pc = "connecting" /\ n = config.master
              THEN chatEnd(fire(s1, "error"))
              ELSE s1
    IN  joinAll(s2, w)

\* conn.connect() threw: connect_error, the pending attempt is deleted and
\* every caller awaiting it gets null.
connectFail(s, n) ==
    LET w == {p \in DOMAIN s.br : s.br[p].pc = "connecting" /\ s.br[p].agent = n}
        s1 == [s EXCEPT
                  !.connectingPromises = @ \ {n},
                  !.checks[n] = @ - 1,
                  !.br = [p \in DOMAIN s.br |->
                             IF p \in w
                             THEN [s.br[p] EXCEPT !.pc = "failed", !.error = ConnectError]
                             ELSE s.br[p]]]
        s2 == IF s.chat.pc = "connecting" /\ n = config.master
              THEN chatEnd(fire(s1, "error"))
              ELSE s1
    IN  joinAll(s2, w)

\* The reachability check of n fails.
ConnectFail(n) ==
    /\ checks[n] > 0
    /\ Commit(connectFail(State, n))

\* The answer to the request of connect: an HTTP status, 0 when fetch rejected
\* (network error, or the 30 s timeout).
NoAnswer == 0
Statuses == {NoAnswer, 200, 429, 500}

\* Response.ok
ok(status) == status \in 200..299

\* OpenClawConnection.connect settles on the answer to its request, and the
\* attempt of ensureConnection with it.
connect(s, n, status) ==
    LET s1 == [s EXCEPT !.probe = [agent |-> n, status |-> status]]
    IN  IF ok(status) THEN connectOK(s1, n) ELSE connectFail(s1, n)

Connect(n, status) ==
    /\ checks[n] > 0
    /\ Commit(connect(State, n, status))

ChatSending == chat.pc \in {"sending", "synth"}

\* A sendMessage of chat returns text.
ChatReply(t) ==
    /\ ChatSending
    /\ Commit(chatLoop(endSend(State, config.master), t))

\* A sendMessage of chat returns null: the stream ended without content.
ChatNoText ==
    /\ ChatSending
    /\ Commit(chatLoop(endSend(State, config.master), NoText))

\* A sendMessage of chat emits 'error' (fetch failed, HTTP error, broken
\* stream).  The connection has no 'error' listener, so emit throws, the
\* call rejects and so does chat.
ChatSendError ==
    /\ ChatSending
    /\ Commit([endSend(State, config.master) EXCEPT !.chat.pc = "rejected"])

\* The first sendMessage of the activation at p returns text.
BranchReply(p, t) ==
    /\ p \in DOMAIN br /\ br[p].pc = "sending"
    /\ Commit(branchAfterSend(endSend(State, br[p].agent), p, t))

\* The first sendMessage of the activation at p returns null.
BranchNoText(p) ==
    /\ p \in DOMAIN br /\ br[p].pc = "sending"
    /\ Commit(branchJoin(fail(endSend(State, br[p].agent), p, NoResponse), Parent(p)))

\* The follow-up sendMessage of the activation at p returns (text or null).
BranchSynthReply(p, t) ==
    /\ p \in DOMAIN br /\ br[p].pc = "synth"
    /\ LET s == endSend(State, br[p].agent)
           result == IF t # NoText THEN t ELSE br[p].result
       IN  Commit(branchJoin(complete(s, p, result), Parent(p)))

\* A sendMessage of the activation at p emits 'error': emit throws, the
\* activation rejects without thread_end.
BranchSendError(p) ==
    /\ p \in DOMAIN br /\ br[p].pc \in {"sending", "synth"}
    /\ Commit(throw(endSend(State, br[p].agent), p))

\* ---------------------------------------------------------- specification
AllNames == BigTeam

\* The names an "@word" of the group chat may spell, in lower case.
GroupNames == {User, Master, Alice, Bob, Carol, Constructor}

\* new GroupChat(config), after connectMaster.  spawned counts the
\* agent_spawned events per name, started holds the names with a
\* message_start from them, early those whose first message_start came with
\* no identity in the initial configuration and no agent_spawned before it.
\* tasks are the activations of sendUserMessage (the first, of "user") and of
\* routeToAgent, in call order: targets are the agents a task routes to, made
\* those it spawned, saveFailed the rejections of saveConfig it met.
NewGroupChat(agents, master) ==
    [agents |-> agents, connections |-> {master}, connectingPromises |-> {},
     globalMentionCount |-> 0, spawnColorIndex |-> 0, activeTasks |-> 0,
     tasks |-> <<>>,
     spawned |-> [n \in GroupNames |-> 0], started |-> {}, early |-> {}]

\* new ResponseBuffer(): no buffers, no order.  created is the order in which
\* the agents were first given to create.
NewBuffer == [buffers |-> <<>>, order |-> <<>>, created |-> <<>>]

\* No group chat is modelled.
NoGroupChat == [NewGroupChat({}, "") EXCEPT !.connections = {}]

InitRegistry ==
    /\ connections = {}
    /\ connectingPromises = {}
    /\ checks = [n \in AllNames |-> 0]
    /\ sending = [n \in AllNames |-> 0]
    /\ chat = [pc |-> "idle", mentionRound |-> 0, wanted |-> <<>>, kids |-> <<>>,
               results |-> <<>>, followUp |-> NoFollowUp]
    /\ globalMentionCount = 0
    /\ br = <<>>
    /\ ev = [end |-> 0, dispatched |-> 0, deepest |-> 0, trace |-> <<>>]
    /\ probe = [agent |-> "", status |-> NoAnswer]
    /\ gc = NoGroupChat
    /\ rb = NewBuffer
    /\ heard = <<>>
    /\ closed = NotClosed

\* The history of a new OpenClawConnection.
NewHistory(prompt) ==
    IF prompt THEN <<[role |-> "system", content |-> <<"prompt">>]>> ELSE <<>>

\* No history is saved or restored: the two connections are new.
NoSession(prompt) ==
    [heap |-> <<NewHistory(prompt), NewHistory(prompt)>>,
     history |-> [c \in {"old", "new"} |-> IF c = "old" THEN 1 ELSE 2],
     saved |-> 0, h |-> <<>>, restored |-> FALSE,
     sent |-> [c \in {"old", "new"} |-> 0],
     inflight |-> [c \in {"old", "new"} |-> 0],
     messages |-> <<>>]

\* new OpenClawConnection(name, config, sessionKey)
InitConnection(prompt) ==
    /\ systemPrompt = prompt
    /\ session = NoSession(prompt)
    /\ history = IF prompt THEN <<[role |-> "system", content |-> <<"prompt">>]>> ELSE <<>>
    /\ calls = <<>>

Init ==
    /\ config \in {[agents |-> SmallTeam, master |-> Master, maxMentionDepth |-> d] :
                      d \in 0..MaxDepth}
    /\ InitRegistry
    /\ InitConnection(FALSE)
    /\ errorListener = FALSE
    /\ extraction = NoExtraction

Next ==
    \/ ChatStart
    \/ \E n \in AllNames : ConnectOK(n)
    \/ \E n \in AllNames : ConnectFail(n)
    \/ \E t \in SmallReplies : ChatReply(t)
    \/ ChatNoText
    \/ ChatSendError
    \/ \E p \in DOMAIN br, t \in SmallReplies : BranchReply(p, t)
    \/ \E p \in DOMAIN br : BranchNoText(p)
    \/ \E p \in DOMAIN br, t \in SmallReplies \cup {NoText} : BranchSynthReply(p, t)
    \/ \E p \in DOMAIN br : BranchSendError(p)

vars == <<ovars, cvars, xvars, pvars, hvars, gvars, bvars, dvars, kvars>>

Spec == Init /\ [][Next]_vars

\* The fan-out configuration: four agents, every reply addresses everybody,
\* no request fails.
InitCap ==
    /\ config = [agents |-> BigTeam, master |-> Master, maxMentionDepth |-> CapDepth]
    /\ InitRegistry
    /\ InitConnection(FALSE)
    /\ errorListener = FALSE
    /\ extraction = NoExtraction

NextCap ==
    \/ ChatStart
    \/ \E n \in AllNames : ConnectOK(n)
    \/ ChatReply(FanOutReply)
    \/ \E p \in DOMAIN br : BranchReply(p, FanOutReply)
    \/ \E p \in DOMAIN br : BranchSynthReply(p, FanOutReply)

SpecCap == InitCap /\ [][NextCap]_vars

\* The fan-out configuration with the depth limit at or below the length of
\* the longest chain of distinct agents: both limits are met.
InitSoft ==
    /\ config \in {[agents |-> BigTeam, master |-> Master, maxMentionDepth |-> d] :
                      d \in {CapDepth - 1, CapDepth}}
    /\ InitRegistry
    /\ InitConnection(FALSE)
    /\ errorListener = FALSE
    /\ extraction = NoExtraction

SpecSoft == InitSoft /\ [][NextCap]_vars

\* Replies that mention: alice and bob, each other, or nobody.
ReturnReplies ==
    {<<Word>>, MentionText(<<Alice>>), MentionText(<<Bob>>), MentionText(<<Alice, Bob>>)}

\* Every reachability check and every sendMessage returns (a check settles,
\* a sendMessage gives text or null), and none stays pending for ever.
NextReturn ==
    \/ ChatStart
    \/ \E n \in AllNames : ConnectOK(n)
    \/ \E n \in AllNames : ConnectFail(n)
    \/ \E t \in ReturnReplies : ChatReply(t)
    \/ ChatNoText
    \/ \E p \in DOMAIN br, t \in ReturnReplies : BranchReply(p, t)
    \/ \E p \in DOMAIN br : BranchNoText(p)
    \/ \E p \in DOMAIN br, t \in ReturnReplies \cup {NoText} : BranchSynthReply(p, t)

SpecReturn == Init /\ [][NextReturn]_vars /\ WF_vars(NextReturn)

\* The activations whose handlers are attached to the connection of agent:
\* conn.on before a sendMessage, conn.removeListener after it.
Listening(agent) ==
    {q \in DOMAIN br : br[q].agent = agent /\ br[q].pc \in {"sending", "synth"}}

\* The stream of the sendMessage of the activation at p delivers content:
\* the connection emits 'delta', and the deltaHandler of every activation
\* attached to it appends the text to the buffer of its activation.
BranchDelta(p) ==
    /\ p \in DOMAIN br /\ br[p].pc \in {"sending", "synth"}
    /\ LET to == Listening(br[p].agent)
           old(q) == IF q \in DOMAIN heard THEN heard[q] ELSE {}
       IN  heard' = [q \in DOMAIN heard \cup to |->
                        IF q \in to THEN old(q) \cup {p} ELSE old(q)]
    /\ heard' # heard
    /\ UNCHANGED <<ovars, cvars, xvars, pvars, hvars, gvars, bvars, kvars>>

\* The turns in which every call returns, with the deltas of the streams.
NextDelta ==
    \/ NextReturn
    \/ \E p \in DOMAIN br : BranchDelta(p)

SpecDelta == Init /\ [][NextDelta]_vars

\* The reachability checks with their answers: every sendMessage returns, the
\* replies are plain or mention the two other agents.
ConnectReplies == {<<Word>>, MentionText(<<Bob>>), MentionText(<<Alice, Bob>>)}

NextConnect ==
    \/ ChatStart
    \/ \E n \in AllNames, status \in Statuses : Connect(n, status)
    \/ \E t \in ConnectReplies : ChatReply(t)
    \/ \E p \in DOMAIN br, t \in ConnectReplies : BranchReply(p, t)
    \/ \E p \in DOMAIN br, t \in ConnectReplies : BranchSynthReply(p, t)

SpecConnect == Init /\ [][NextConnect]_vars

\* The ensureConnection calls made so far: one by chat, one by each
\* processMentionRecursive.
EnsureCalls == ev.dispatched + (IF chat.pc = "idle" THEN 0 ELSE 1)

\* Orchestrator.close(): every registered client is closed and the registry
\* is cleared.  The pending attempts are left as they are.
Close ==
    /\ connections' = {}
    /\ closed' = EnsureCalls
    /\ UNCHANGED <<config, connectingPromises, checks, sending, chat,
                   globalMentionCount, br, ev, cvars, xvars, pvars, hvars, gvars,
                   bvars, dvars>>

\* The turns of SpecConnect with a close() at any moment.
NextClose ==
    \/ NextConnect
    \/ Close

SpecClose == Init /\ [][NextClose]_vars

\* ------------------------------------------- OpenClawConnection.sendMessage
\* A frame is a parsed "data: {json}" line: the tool_calls of its delta, its
\* content ("" when absent), whether it carries finish_reason, and whether
\* JSON.parse fails on it.  A tool call has an id (0 when absent) and may
\* name its function.  The argument strings are accumulated by the code and
\* never read; they are left out.
ToolFrame(id) ==
    [tools |-> <<[id |-> id, name |-> TRUE]>>, content |-> "", finish |-> FALSE, bad |-> FALSE]

ContentFrame(d) == [tools |-> <<>>, content |-> d, finish |-> FALSE, bad |-> FALSE]

FinishFrame == [tools |-> <<>>, content |-> "", finish |-> TRUE, bad |-> FALSE]

BadFrame == [tools |-> <<>>, content |-> "", finish |-> FALSE, bad |-> TRUE]

ToolContentFrame ==
    [tools |-> <<[id |-> 1, name |-> TRUE]>>, content |-> "x", finish |-> FALSE, bad |-> FALSE]

Frames ==
    {ToolFrame(1), ToolFrame(2), ContentFrame("x"), ContentFrame("y"), FinishFrame,
     BadFrame, ToolContentFrame}

HistoryFrames == {ContentFrame("x"), ToolFrame(1)}

\* A null among the elements of delta.tool_calls.
NullCall == [id |-> -1, name |-> FALSE]

\* Valid JSON of a shape the loop does not expect: tool_calls holds a call
\* and then null, next to content and finish_reason.
HalfBadFrame ==
    [tools |-> <<[id |-> 1, name |-> TRUE], NullCall>>, content |-> "x",
     finish |-> TRUE, bad |-> FALSE]

MalformedFrames == {ToolFrame(1), ContentFrame("x"), FinishFrame, BadFrame, HalfBadFrame}

MessageName == <<"m1", "m2", "m3", "m4", "m5">>

Event(type, id, content) == [type |-> type, id |-> id, content |-> content]

\* this.emit(type, ...) of a call: the trace of the events it emitted.
emit(c, e) == [c EXCEPT !.events = Append(@, e)]

\* One element of delta.tool_calls: a new id with a function name starts a call.
trackTool(c, tc) ==
    IF tc.id # 0 /\ tc.name /\ ~(\E k \in 1..Len(c.active) : c.active[k] = tc.id)
    THEN emit([c EXCEPT !.active = Append(@, tc.id)], Event("tool_start", tc.id, ""))
    ELSE c

RECURSIVE trackTools(_, _, _)
trackTools(c, tcs, i) ==
    IF i > Len(tcs) THEN c ELSE trackTools(trackTool(c, tcs[i]), tcs, i + 1)

\* The loop over activeToolCalls without the clear() after it.
closeToolsNoClear(c) ==
    [c EXCEPT !.events = @ \o [k \in 1..Len(c.active) |-> Event("tool_end", c.active[k], "")]]

\* for (const [id, { name }] of activeToolCalls) emit('tool_end'); clear().
closeTools(c) ==
    [c EXCEPT !.events = @ \o [k \in 1..Len(c.active) |-> Event("tool_end", c.active[k], "")],
              !.active = <<>>]

\* tc.id throws a TypeError for a null element.
Throws(f) == \E k \in 1..Len(f.tools) : f.tools[k] = NullCall

\* The body of the loop over the lines of a chunk, for one frame: what throws
\* inside, JSON.parse or the loop over tool_calls at a null element, ends the
\* work on the frame with what was done before.
processFrame(c, f) ==
    IF f.bad THEN c
    ELSE IF Throws(f)
    THEN LET n == Min({k \in 1..Len(f.tools) : f.tools[k] = NullCall})
         IN  trackTools(c, SubSeq(f.tools, 1, n - 1), 1)
    ELSE LET c1 == trackTools(c, f.tools, 1)
             c2 == IF f.content # "" /\ c1.active # <<>> THEN closeTools(c1) ELSE c1
             c3 == IF f.content # ""
                   THEN emit([c2 EXCEPT !.fullText = Append(@, f.content)],
                             Event("delta", 0, f.content))
                   ELSE c2
         IN  IF f.finish /\ c3.active # <<>> THEN closeTools(c3) ELSE c3

NewCall(m) ==
    [pc |-> "fetch", message |-> m, fullText |-> <<>>, active |-> <<>>,
     events |-> <<>>, frames |-> <<>>, ret |-> NoText]

\* sendMessage(message) is called: the user entry, then the fetch.
SendMessage(maxCalls) ==
    /\ Len(calls) < maxCalls
    /\ LET m == <<MessageName[Len(calls) + 1]>> IN
       /\ history' = Append(history, [role |-> "user", content |-> m])
       /\ calls' = Append(calls, NewCall(m))
    /\ UNCHANGED <<ovars, xvars, pvars, dvars, kvars, bvars, hvars, gvars, systemPrompt, errorListener>>

\* this.emit('error', msg); return null.  Without an 'error' listener emit
\* throws and the call rejects.
emitError(c) ==
    LET c1 == emit(c, Event("error", 0, ""))
    IN  IF errorListener THEN [c1 EXCEPT !.pc = "returned", !.ret = NoText]
        ELSE [c1 EXCEPT !.pc = "thrown"]

\* fetch rejects (network failure, timeout).
FetchFail(i) ==
    /\ i \in DOMAIN calls /\ calls[i].pc = "fetch"
    /\ calls' = [calls EXCEPT ![i] = emitError(@)]
    /\ UNCHANGED <<ovars, xvars, pvars, dvars, kvars, bvars, hvars, gvars, systemPrompt, errorListener, history>>

\* !res.ok || !res.body
HttpError(i) ==
    /\ i \in DOMAIN calls /\ calls[i].pc = "fetch"
    /\ calls' = [calls EXCEPT ![i] = emitError(@)]
    /\ UNCHANGED <<ovars, xvars, pvars, dvars, kvars, bvars, hvars, gvars, systemPrompt, errorListener, history>>

FetchOK(i) ==
    /\ i \in DOMAIN calls /\ calls[i].pc = "fetch"
    /\ calls' = [calls EXCEPT ![i].pc = "stream"]
    /\ UNCHANGED <<ovars, xvars, pvars, dvars, kvars, bvars, hvars, gvars, systemPrompt, errorListener, history>>

\* A frame of the stream is read and processed.
Frame(i, f, maxFrames) ==
    /\ i \in DOMAIN calls /\ calls[i].pc = "stream"
    /\ Len(calls[i].frames) < maxFrames
    /\ calls' = [calls EXCEPT ![i] = [processFrame(@, f) EXCEPT !.frames = Append(@, f)]]
    /\ UNCHANGED <<ovars, xvars, pvars, dvars, kvars, bvars, hvars, gvars, systemPrompt, errorListener, history>>

\* The end of sendMessage without the assistant entry.
finishCallNoAppend(i) ==
    LET c == closeTools(calls[i]) IN
    /\ calls' = [calls EXCEPT ![i] = [c EXCEPT !.pc = "returned", !.ret = c.fullText]]
    /\ history' = history

\* The end of sendMessage without the test on fullText.
finishCallAlways(i) ==
    LET c == closeTools(calls[i]) IN
    /\ calls' = [calls EXCEPT ![i] = [c EXCEPT !.pc = "returned", !.ret = c.fullText]]
    /\ history' = Append(history, [role |-> "assistant", content |-> c.fullText])

\* After the stream: close the open tool calls, append the assistant entry
\* when there is text, return fullText || null.
finishCall(i) ==
    LET c == closeTools(calls[i]) IN
    /\ calls' = [calls EXCEPT ![i] = [c EXCEPT !.pc = "returned", !.ret = c.fullText]]
    /\ history' = IF c.fullText # <<>>
                  THEN Append(history, [role |-> "assistant", content |-> c.fullText])
                  ELSE history

\* reader.read() reports done.
StreamEnd(i) ==
    /\ i \in DOMAIN calls /\ calls[i].pc = "stream"
    /\ finishCall(i)
    /\ UNCHANGED <<ovars, xvars, pvars, dvars, kvars, bvars, hvars, gvars, systemPrompt, errorListener>>

\* reader.read() rejects: emit 'error'; return null when no text arrived,
\* else go on as after the stream.
StreamError(i) ==
    /\ i \in DOMAIN calls /\ calls[i].pc = "stream"
    /\ LET c == emit(calls[i], Event("error", 0, "")) IN
       IF ~errorListener
       THEN /\ calls' = [calls EXCEPT ![i] = [c EXCEPT !.pc = "thrown"]]
            /\ UNCHANGED history
       ELSE IF c.fullText = <<>>
       THEN /\ calls' = [calls EXCEPT ![i] = [c EXCEPT !.pc = "returned", !.ret = NoText]]
            /\ UNCHANGED history
       ELSE LET d == closeTools(c) IN
            /\ calls' = [calls EXCEPT ![i] = [d EXCEPT !.pc = "returned", !.ret = d.fullText]]
            /\ history' = Append(history, [role |-> "assistant", content |-> d.fullText])
    /\ UNCHANGED <<ovars, xvars, pvars, dvars, kvars, bvars, hvars, gvars, systemPrompt, errorListener>>

\* One connection, with or without system prompt and 'error' listener; the
\* orchestrator is idle.
InitConn ==
    /\ config = [agents |-> SmallTeam, master |-> Master, maxMentionDepth |-> 0]
    /\ InitRegistry
    /\ \E prompt \in BOOLEAN : InitConnection(prompt)
    /\ errorListener \in BOOLEAN
    /\ extraction = NoExtraction

\* A single sendMessage call over every stream of at most MaxFrames frames.
NextStream ==
    \/ SendMessage(1)
    \/ \E i \in DOMAIN calls : FetchFail(i)
    \/ \E i \in DOMAIN calls : HttpError(i)
    \/ \E i \in DOMAIN calls : FetchOK(i)
    \/ \E i \in DOMAIN calls, f \in Frames : Frame(i, f, MaxFrames)
    \/ \E i \in DOMAIN calls : StreamEnd(i)
    \/ \E i \in DOMAIN calls : StreamError(i)

SpecStream == InitConn /\ [][NextStream]_vars

\* Up to MaxCalls sendMessage calls on the connection, one after the other
\* or overlapping, over short streams.
NextHistory ==
    \/ SendMessage(MaxCalls)
    \/ \E i \in DOMAIN calls : FetchFail(i)
    \/ \E i \in DOMAIN calls : HttpError(i)
    \/ \E i \in DOMAIN calls : FetchOK(i)
    \/ \E i \in DOMAIN calls, f \in HistoryFrames : Frame(i, f, MaxHistFrames)
    \/ \E i \in DOMAIN calls : StreamEnd(i)
    \/ \E i \in DOMAIN calls : StreamError(i)

SpecHistory == InitConn /\ [][NextHistory]_vars

\* A single sendMessage call over streams with frames that do not parse and
\* frames of an unexpected shape.
NextMalformed ==
    \/ SendMessage(1)
    \/ \E i \in DOMAIN calls : FetchOK(i)
    \/ \E i \in DOMAIN calls, f \in MalformedFrames : Frame(i, f, MaxFrames)
    \/ \E i \in DOMAIN calls : StreamEnd(i)
    \/ \E i \in DOMAIN calls : StreamError(i)

SpecMalformed == InitConn /\ [][NextMalformed]_vars

\* ------------------------------------------- getHistory and setHistory
\* Arrays are objects: session.heap[r] is the array with the reference r,
\* session.history[c] the reference held by this.history of connection c.
\* "old" is the connection whose history is saved, "new" a connection of the
\* same agent made by a later run.  saved is the reference returned by
\* getHistory (0 before), h the history of "old" when it was called, messages
\* the `messages` of the first request of "new" after setHistory.

\* getHistory returning this.history itself.
getHistoryNoCopy(s, c) == [s |-> s, ref |-> s.history[c]]

\* return [...this.history]
getHistory(s, c) ==
    [s |-> [s EXCEPT !.heap = Append(@, s.heap[s.history[c]])],
     ref |-> Len(s.heap) + 1]

\* this.history = [...history]
setHistory(s, c, ref) ==
    [s EXCEPT !.heap = Append(@, s.heap[ref]), !.history[c] = Len(s.heap) + 1]

\* this.history.push(entry)
push(s, c, entry) == [s EXCEPT !.heap[s.history[c]] = Append(@, entry)]

UserEntry(c, i) == [role |-> "user", content |-> <<c, MessageName[i]>>]

\* sendMessage(message) on c up to the fetch: the user entry is pushed and
\* the request carries this.history.
SessionSend(c) ==
    /\ session.sent[c] < MaxCalls
    /\ c = "new" => session.restored
    /\ LET s1 == push(session, c, UserEntry(c, session.sent[c] + 1))
           first == c = "new" /\ session.sent[c] = 0
       IN  session' = [s1 EXCEPT !.sent[c] = @ + 1,
                                 !.inflight[c] = @ + 1,
                                 !.messages = IF first THEN s1.heap[s1.history[c]] ELSE @]
    /\ UNCHANGED <<ovars, cvars, xvars, pvars, dvars, kvars, bvars, gvars>>

\* sendMessage on c returns: text, pushed as the assistant entry, or null.
SessionReturn(c, t) ==
    /\ session.inflight[c] > 0
    /\ LET s1 == IF t = NoText THEN session
                 ELSE push(session, c, [role |-> "assistant", content |-> t])
       IN  session' = [s1 EXCEPT !.inflight[c] = @ - 1]
    /\ UNCHANGED <<ovars, cvars, xvars, pvars, dvars, kvars, bvars, gvars>>

\* Orchestrator.getHistories: result[name] = conn.getHistory()
GetHistories ==
    /\ session.saved = 0
    /\ LET r == getHistory(session, "old")
       IN  session' = [r.s EXCEPT !.saved = r.ref,
                                  !.h = session.heap[session.history["old"]]]
    /\ UNCHANGED <<ovars, cvars, xvars, pvars, dvars, kvars, bvars, gvars>>

\* Orchestrator.restoreHistories on the new connection: conn.setHistory(history)
RestoreHistories ==
    /\ session.saved # 0
    /\ ~session.restored
    /\ session' = [setHistory(session, "new", session.saved) EXCEPT !.restored = TRUE]
    /\ UNCHANGED <<ovars, cvars, xvars, pvars, dvars, kvars, bvars, gvars>>

NextSession ==
    \/ \E c \in {"old", "new"} : SessionSend(c)
    \/ \E c \in {"old", "new"}, t \in {<<"x">>, NoText} : SessionReturn(c, t)
    \/ GetHistories
    \/ RestoreHistories

SpecSession == InitConn /\ [][NextSession]_vars

\* --------------------------------------------------------- ResponseBuffer
\* buffers is the Map of the AgentBuffers (status, text, toolName and error,
\* "" when undefined), order the array of names; b is the record of both.

\* create that pushes the name whether the agent has a buffer or not.
createAlwaysPush(b, agent) ==
    [b EXCEPT !.order = Append(@, agent),
              !.buffers = (agent :> [status |-> "thinking", text |-> <<>>,
                                     toolName |-> "", error |-> ""]) @@ @]

create(b, agent) ==
    [b EXCEPT !.order = IF agent \in DOMAIN b.buffers THEN @ ELSE Append(@, agent),
              !.buffers = (agent :> [status |-> "thinking", text |-> <<>>,
                                     toolName |-> "", error |-> ""]) @@ @]

appendDelta(b, agent, text) ==
    IF agent \in DOMAIN b.buffers
    THEN [b EXCEPT !.buffers[agent].text = @ \o text,
                   !.buffers[agent].status = "streaming"]
    ELSE b

bufferComplete(b, agent, fullText) ==
    IF agent \in DOMAIN b.buffers
    THEN [b EXCEPT !.buffers[agent].text = fullText,
                   !.buffers[agent].status = "done"]
    ELSE b

bufferFail(b, agent, error) ==
    IF agent \in DOMAIN b.buffers
    THEN [b EXCEPT !.buffers[agent].error = error,
                   !.buffers[agent].status = "error"]
    ELSE b

addToolUse(b, agent, toolName) ==
    IF agent \in DOMAIN b.buffers
    THEN [b EXCEPT !.buffers[agent].toolName = toolName,
                   !.buffers[agent].status = "tool_use"]
    ELSE b

clearToolUse(b, agent) ==
    IF agent \in DOMAIN b.buffers /\ b.buffers[agent].status = "tool_use"
    THEN [b EXCEPT !.buffers[agent].status =
                       IF b.buffers[agent].text # <<>> THEN "streaming" ELSE "thinking",
                   !.buffers[agent].toolName = ""]
    ELSE b

\* this.order.map((name) => this.buffers.get(name)!).filter(Boolean), each
\* buffer with its agent.
getAll(b) ==
    LET present == SelectSeq(b.order, LAMBDA name : name \in DOMAIN b.buffers)
    IN  [k \in 1..Len(present) |-> [agent |-> present[k], buffer |-> b.buffers[present[k]]]]

allDone(b) ==
    \A k \in 1..Len(getAll(b)) : getAll(b)[k].buffer.status \in {"done", "error"}

BufferAgents == {Alice, Bob}

Create(agent) ==
    /\ rb' = [create(rb, agent) EXCEPT
                 !.created = IF \E k \in 1..Len(rb.created) : rb.created[k] = agent
                             THEN @ ELSE Append(@, agent)]
    /\ UNCHANGED <<ovars, cvars, xvars, pvars, dvars, kvars, hvars, gvars>>

AppendDelta(agent) ==
    /\ agent \in DOMAIN rb.buffers => Len(rb.buffers[agent].text) < MaxBufferText
    /\ rb' = appendDelta(rb, agent, <<"x">>)
    /\ UNCHANGED <<ovars, cvars, xvars, pvars, dvars, kvars, hvars, gvars>>

Complete(agent) ==
    /\ rb' = bufferComplete(rb, agent, <<"y">>)
    /\ UNCHANGED <<ovars, cvars, xvars, pvars, dvars, kvars, hvars, gvars>>

Fail(agent) ==
    /\ rb' = bufferFail(rb, agent, "No response")
    /\ UNCHANGED <<ovars, cvars, xvars, pvars, dvars, kvars, hvars, gvars>>

AddToolUse(agent) ==
    /\ rb' = addToolUse(rb, agent, "search")
    /\ UNCHANGED <<ovars, cvars, xvars, pvars, dvars, kvars, hvars, gvars>>

ClearToolUse(agent) ==
    /\ rb' = clearToolUse(rb, agent)
    /\ UNCHANGED <<ovars, cvars, xvars, pvars, dvars, kvars, hvars, gvars>>

NextBuffer ==
    \/ \E agent \in BufferAgents : Create(agent)
    \/ \E agent \in BufferAgents : AppendDelta(agent)
    \/ \E agent \in BufferAgents : Complete(agent)
    \/ \E agent \in BufferAgents : Fail(agent)
    \/ \E agent \in BufferAgents : AddToolUse(agent)
    \/ \E agent \in BufferAgents : ClearToolUse(agent)

SpecBuffer == InitConn /\ [][NextBuffer]_vars

\* ------------------------------------------------------------ GroupChat
\* A text is a sequence of tokens; a token of MentionTokens stands for
\* "@token", which MENTION_REGEX matches, in whatever case.
MentionTokens == GroupNames \cup {BobCapital}

\* match[1].toLowerCase()
toLowerCase(token) == IF token = BobCapital THEN Bob ELSE token

\* GroupChat.extractMentions: the agents mentioned, once each and in order of
\* first mention, without excludeAgent.  Every one of them gets the full text.
RECURSIVE GroupExtractFrom(_, _, _, _)
GroupExtractFrom(text, excludeAgent, i, seen) ==
    IF i > Len(text) THEN <<>>
    ELSE LET agent == toLowerCase(text[i])
         IN  IF text[i] \notin MentionTokens \/ agent = excludeAgent \/ agent \in seen
             THEN GroupExtractFrom(text, excludeAgent, i + 1, seen)
             ELSE <<agent>> \o GroupExtractFrom(text, excludeAgent, i + 1, seen \cup {agent})

groupExtractMentions(text, excludeAgent) == GroupExtractFrom(text, excludeAgent, 1, {})

\* The names config.agents[name] is truthy for without being an agent: the
\* properties that the object literal inherits from Object.prototype and
\* that MENTION_REGEX can spell in lower case.
ObjectPrototypeKeys == {Constructor}

\* this.config.agents[name] is truthy.
hasAgent(g, name) == name \in g.agents \/ name \in ObjectPrototypeKeys

\* this.fire({ type: 'message_start', message }) with message.from = name.
messageStart(g, name) ==
    [g EXCEPT !.started = @ \cup {name},
              !.early = IF name \notin config.agents \cup {User} /\ g.spawned[name] = 0
                        THEN @ \cup {name} ELSE @]

\* spawnDynamicAgent up to its await of saveConfig: the identity is added and
\* agent_spawned fired.
spawnDynamicAgent(g, name) ==
    [g EXCEPT !.agents = @ \cup {name},
              !.spawnColorIndex = @ + 1,
              !.spawned[name] = @ + 1]

NewTask(agent, depth, targets) ==
    [agent |-> agent, depth |-> depth, pc |-> "new", targets |-> targets, idx |-> 0,
     kids |-> <<>>, made |-> <<>>, saveFailed |-> 0]

\* routeToAgent(agentName, message, fromName, depth) of task i up to its first
\* suspension: ensureConnection, then the failure message or message_start
\* and sendMessage.
routeToAgent(g, i) ==
    LET name == g.tasks[i].agent
        g1 == [g EXCEPT !.activeTasks = @ + 1]
    IN  IF name \in g1.connections
        THEN [messageStart(g1, name) EXCEPT !.tasks[i].pc = "sending"]
        ELSE IF name \in g1.connectingPromises
        THEN [g1 EXCEPT !.tasks[i].pc = "connecting"]
        ELSE IF ~hasAgent(g1, name)
        THEN [messageStart(g1, name) EXCEPT !.tasks[i].pc = "done", !.activeTasks = @ - 1]
        ELSE [g1 EXCEPT !.connectingPromises = @ \cup {name},
                        !.tasks[i].pc = "connecting"]

\* Promise.all(mentions.map((m) => this.routeToAgent(m.agent, ...))) of task
\* i from its k-th target on: the calls run one after the other, each up to
\* its first suspension.
RECURSIVE routeAll(_, _, _)
routeAll(g, i, k) ==
    LET t == g.tasks[i] IN
    IF k > Len(t.targets) THEN [g EXCEPT !.tasks[i].pc = "routed"]
    ELSE LET j == Len(g.tasks) + 1
             g1 == [g EXCEPT !.tasks = Append(@, NewTask(t.targets[k], t.depth + 1, <<>>)),
                             !.tasks[i].kids = Append(@, j)]
         IN  routeAll(routeToAgent(g1, j), i, k + 1)

\* The loop over the mentions of task i from the k-th on: an agent without
\* identity is spawned, and the loop is suspended in saveConfig; after the
\* last one the message is routed.
RECURSIVE spawnLoop(_, _, _)
spawnLoop(g, i, k) ==
    LET t == g.tasks[i] IN
    IF k > Len(t.targets) THEN routeAll(g, i, 1)
    ELSE IF ~hasAgent(g, t.targets[k])
    THEN [spawnDynamicAgent(g, t.targets[k]) EXCEPT !.tasks[i].pc = "saving",
                                                     !.tasks[i].idx = k,
                                                     !.tasks[i].made = Append(@, t.targets[k])]
    ELSE spawnLoop(g, i, k + 1)

\* sendUserMessage(text): message_start of the user's message, the counter is
\* reset, and the text goes to the agents it mentions, or to the coordinator.
SendUserMessage(text) ==
    /\ gc.tasks = <<>>
    /\ LET directMentions == groupExtractMentions(text, User)
           g1 == [messageStart(gc, User) EXCEPT !.globalMentionCount = 0]
       IN  gc' = IF directMentions # <<>>
                 THEN spawnLoop([g1 EXCEPT !.tasks = <<NewTask(User, -1, directMentions)>>], 1, 1)
                 ELSE routeAll([g1 EXCEPT !.tasks = <<NewTask(User, -1, <<config.master>>)>>], 1, 1)
    /\ UNCHANGED <<ovars, cvars, xvars, pvars, dvars, kvars, bvars, hvars>>

\* The tasks of routeToAgent awaiting the attempt of name go on.
groupConnected(g, name, connected) ==
    LET Step(h, i) ==
            IF h.tasks[i].pc = "connecting" /\ h.tasks[i].agent = name
            THEN IF connected
                 THEN [messageStart(h, name) EXCEPT !.tasks[i].pc = "sending"]
                 ELSE [messageStart(h, name) EXCEPT !.tasks[i].pc = "done",
                                                   !.activeTasks = @ - 1]
            ELSE h
        Run[k \in 0..Len(g.tasks)] == IF k = 0 THEN g ELSE Step(Run[k - 1], k)
    IN  Run[Len(g.tasks)]

\* conn.connect() of the attempt for name resolved.
GroupConnectOK(name) ==
    /\ name \in gc.connectingPromises
    /\ gc' = groupConnected([gc EXCEPT !.connections = @ \cup {name},
                                       !.connectingPromises = @ \ {name}], name, TRUE)
    /\ UNCHANGED <<ovars, cvars, xvars, pvars, dvars, kvars, bvars, hvars>>

\* conn.connect() of the attempt for name threw.
GroupConnectFail(name) ==
    /\ name \in gc.connectingPromises
    /\ gc' = groupConnected([gc EXCEPT !.connectingPromises = @ \ {name}], name, FALSE)
    /\ UNCHANGED <<ovars, cvars, xvars, pvars, dvars, kvars, bvars, hvars>>

\* sendMessage of task i returned text: message_done, and the mentions of the
\* text are counted, spawned and routed.
GroupReply(i, text) ==
    /\ i \in DOMAIN gc.tasks /\ gc.tasks[i].pc = "sending"
    /\ LET mentions == groupExtractMentions(text, gc.tasks[i].agent)
           g1 == [gc EXCEPT !.activeTasks = @ - 1]
       IN  /\ gc.globalMentionCount + Len(mentions) <= MaxMentions
           /\ gc' = IF mentions = <<>> THEN [g1 EXCEPT !.tasks[i].pc = "done"]
                     ELSE spawnLoop([g1 EXCEPT !.globalMentionCount = @ + Len(mentions),
                                               !.tasks[i].targets = mentions], i, 1)
    /\ UNCHANGED <<ovars, cvars, xvars, pvars, dvars, kvars, bvars, hvars>>

\* sendMessage of task i returned null (the connection has an 'error'
\* listener here): message_error.
GroupNoText(i) ==
    /\ i \in DOMAIN gc.tasks /\ gc.tasks[i].pc = "sending"
    /\ gc' = [gc EXCEPT !.activeTasks = @ - 1, !.tasks[i].pc = "done"]
    /\ UNCHANGED <<ovars, cvars, xvars, pvars, dvars, kvars, bvars, hvars>>

\* A rejection of saveConfig that is not caught.
saveFailFatal(g, i) ==
    [g EXCEPT !.tasks[i].saveFailed = @ + 1, !.tasks[i].pc = "thrown"]

\* saveConfig rejected: catch
saveFail(g, i) ==
    spawnLoop([g EXCEPT !.tasks[i].saveFailed = @ + 1], i, g.tasks[i].idx + 1)

\* saveConfig of the spawn of task i resolved.
SaveOK(i) ==
    /\ i \in DOMAIN gc.tasks /\ gc.tasks[i].pc = "saving"
    /\ gc' = spawnLoop(gc, i, gc.tasks[i].idx + 1)
    /\ UNCHANGED <<ovars, cvars, xvars, pvars, dvars, kvars, bvars, hvars>>

\* saveConfig of the spawn of task i rejected.
SaveFail(i) ==
    /\ i \in DOMAIN gc.tasks /\ gc.tasks[i].pc = "saving"
    /\ gc' = saveFail(gc, i)
    /\ UNCHANGED <<ovars, cvars, xvars, pvars, dvars, kvars, bvars, hvars>>

UserTexts == {<<Word>>, <<Bob, Word>>, <<Alice, Word, Carol>>}

GroupReplies ==
    {<<Word>>, <<Alice, Word>>, <<Bob, Word>>, <<Bob, Word, Carol>>,
     <<BobCapital, Word, Bob>>, <<Constructor, Word>>}

\* A coordinator and alice are configured, the coordinator is connected.
InitGroup ==
    /\ config = [agents |-> {Master, Alice}, master |-> Master, maxMentionDepth |-> 1]
    /\ connections = {}
    /\ connectingPromises = {}
    /\ checks = [n \in AllNames |-> 0]
    /\ sending = [n \in AllNames |-> 0]
    /\ chat = [pc |-> "idle", mentionRound |-> 0, wanted |-> <<>>, kids |-> <<>>,
               results |-> <<>>, followUp |-> NoFollowUp]
    /\ globalMentionCount = 0
    /\ br = <<>>
    /\ ev = [end |-> 0, dispatched |-> 0, deepest |-> 0, trace |-> <<>>]
    /\ probe = [agent |-> "", status |-> NoAnswer]
    /\ gc = NewGroupChat({Master, Alice}, Master)
    /\ rb = NewBuffer
    /\ heard = <<>>
    /\ closed = NotClosed
    /\ InitConnection(FALSE)
    /\ errorListener = TRUE
    /\ extraction = NoExtraction

NextGroup ==
    \/ \E text \in UserTexts : SendUserMessage(text)
    \/ \E name \in GroupNames : GroupConnectOK(name)
    \/ \E name \in GroupNames : GroupConnectFail(name)
    \/ \E i \in DOMAIN gc.tasks, text \in GroupReplies : GroupReply(i, text)
    \/ \E i \in DOMAIN gc.tasks : GroupNoText(i)
    \/ \E i \in DOMAIN gc.tasks : SaveOK(i)
    \/ \E i \in DOMAIN gc.tasks : SaveFail(i)

SpecGroup == InitGroup /\ [][NextGroup]_vars

\* ------------------------------------------------------------- properties
Range(f) == {f[i] : i \in DOMAIN f}

Distinct(f) == \A i, j \in DOMAIN f : i # j => f[i] # f[j]

\* C1: no branch is ever started at a depth above maxMentionDepth; the depth
\* grows by one per level; a branch below the limit whose reply holds child
\* mentions that fit the budget dispatches them, a branch at the limit never
\* does, and with maxMentionDepth = 0 nothing is dispatched.
DepthLimit ==
    /\ ev.deepest <= config.maxMentionDepth
    /\ chat.mentionRound <= config.maxMentionDepth
    /\ config.maxMentionDepth = 0 => ev.dispatched = 0 /\ br = <<>>
    /\ \A p \in DOMAIN br :
          /\ br[p].depth = Len(p)
          /\ br[p].depth <= config.maxMentionDepth
          /\ br[p].depth = config.maxMentionDepth => br[p].kids = <<>>
          /\ (/\ br[p].depth < config.maxMentionDepth
              /\ br[p].wanted # <<>>
              /\ globalMentionCount + Len(br[p].wanted) <= MAX_TOTAL_MENTIONS)
             => br[p].kids = br[p].wanted

\* A branch at the limit got a reply with child mentions and stopped there.
DepthLimitWitness ==
    \E p \in DOMAIN br :
        /\ br[p].depth = config.maxMentionDepth
        /\ br[p].wanted # <<>>
        /\ br[p].kids = <<>>
        /\ br[p].pc = "done"

\* C2: the branches dispatched in a turn never exceed MAX_TOTAL_MENTIONS.
MentionCap == ev.dispatched <= MAX_TOTAL_MENTIONS

\* The cap is reached and a branch below the depth limit did not dispatch the
\* child mentions of its reply.
MentionCapWitness ==
    /\ ev.dispatched = MAX_TOTAL_MENTIONS
    /\ \E p \in DOMAIN br :
          /\ br[p].depth < config.maxMentionDepth
          /\ br[p].wanted # <<>>
          /\ br[p].kids = <<>>
          /\ br[p].pc = "done"

Callers(n) ==
    Cardinality(Awaiting(n)) + (IF chat.pc = "connecting" /\ n = config.master THEN 1 ELSE 0)

\* C3: at most one reachability check is in flight per agent name; it is the
\* pending attempt every caller of that name awaits; no check runs for a
\* name whose client is registered.
ConnectOnce ==
    \A n \in AllNames :
        /\ checks[n] <= 1
        /\ checks[n] = 1 <=> n \in connectingPromises
        /\ Callers(n) > 0 => checks[n] = 1
        /\ n \in connections => checks[n] = 0

\* Two branches await the one attempt of an agent.
ConnectOnceWitness ==
    \E n \in AllNames : Cardinality(Awaiting(n)) = 2 /\ checks[n] = 1

\* C4: a turn that is over has emitted 'end'.
EndAlwaysEmitted == chat.pc \in {"ended", "rejected"} => ev.end = 1

\* C5: while the fold-back message of a branch (or of the root) is in flight,
\* every child it dispatched has completed.
JoinBeforeSynthesis ==
    /\ chat.pc = "synth" =>
          \A i \in 1..Len(chat.kids) : br[<<chat.kids[i]>>].pc \in {"done", "failed"}
    /\ \A p \in DOMAIN br :
          br[p].pc = "synth" =>
             /\ br[p].kids # <<>>
             /\ \A i \in 1..Len(br[p].kids) :
                   br[Append(p, br[p].kids[i])].pc \in {"done", "failed"}

\* A fold-back message is in flight at the root while a nested one with two
\* children was sent before.
JoinBeforeSynthesisWitness ==
    /\ chat.pc = "synth"
    /\ Len(chat.kids) = 2
    /\ \E p \in DOMAIN br : Len(p) = 1 /\ br[p].kids # <<>> /\ br[p].pc = "done"

\* C6: a lineage, the coordinator followed by the agents of a path, holds
\* every agent name at most once.
NoCycle ==
    \A p \in DOMAIN br :
        /\ Distinct(p)
        /\ config.master \notin Range(p)
        /\ br[p].agent = p[Len(p)]
        /\ br[p].visited = {config.master} \cup Range(Parent(p))

\* A nested reply mentioned the coordinator and the mention was dropped.
NoCycleWitness ==
    \E p \in DOMAIN br :
        /\ br[p].depth < config.maxMentionDepth
        /\ br[p].result = MentionText(<<Master>>)
        /\ br[p].wanted = <<>>

\* C7: at most one sendMessage call is in flight per connection.
OneSendPerAgent == \A n \in AllNames : sending[n] <= 1

Settled(c) == c.pc \in {"returned", "thrown"}

\* The history after the system entry.
Body == SubSeq(history, (IF systemPrompt THEN 2 ELSE 1), Len(history))

Roles(h) == [k \in 1..Len(h) |-> h[k].role]

CountRole(h, n, role) == Cardinality({k \in 1..n : h[k].role = role})

\* C8 as stated: once no call is in flight, the history is the system entry
\* (when there is a system prompt) followed by user, assistant, user, ...
HistoryAlternates ==
    (\A i \in DOMAIN calls : Settled(calls[i])) =>
        /\ systemPrompt => history # <<>> /\ history[1].role = "system"
        /\ \A k \in 1..Len(Body) :
              Body[k].role = IF k % 2 = 1 THEN "user" ELSE "assistant"

\* C8 amended: the history is the system entry (exactly when there is a
\* system prompt) followed by user and assistant entries; the user entries are
\* the messages of the calls in call order; there is one assistant entry, with
\* non-empty text, per call that returned text; no prefix holds more assistant
\* than user entries.
HistoryShape ==
    /\ systemPrompt <=> (history # <<>> /\ history[1].role = "system")
    /\ \A k \in 1..Len(Body) : Body[k].role \in {"user", "assistant"}
    /\ LET users == SelectSeq(Body, LAMBDA e : e.role = "user")
           assistants == SelectSeq(Body, LAMBDA e : e.role = "assistant")
           answered == {i \in DOMAIN calls : calls[i].pc = "returned" /\ calls[i].ret # NoText}
       IN  /\ Len(users) = Len(calls)
           /\ \A k \in 1..Len(users) : users[k].content = calls[k].message
           /\ Len(assistants) = Cardinality(answered)
           /\ \A k \in 1..Len(assistants) :
                 /\ assistants[k].content # <<>>
                 /\ \E i \in answered : calls[i].ret = assistants[k].content
    /\ \A n \in 1..Len(Body) : CountRole(Body, n, "assistant") <= CountRole(Body, n, "user")

\* A first call returned null, a second one returned text: two user entries
\* are adjacent.
HistoryShapeWitness ==
    /\ Len(calls) = 2
    /\ calls[1].pc = "returned" /\ calls[1].ret = NoText
    /\ calls[2].pc = "returned" /\ calls[2].ret # NoText
    /\ Roles(Body) = <<"user", "user", "assistant">>

CountEvents(es, n, type, id) ==
    Cardinality({k \in 1..n : es[k].type = type /\ es[k].id = id})

ToolIds == {1, 2}

\* C9: when a sendMessage call has returned, every tool_start it emitted has
\* its tool_end and no tool call is open.
ToolCallsClosed ==
    \A i \in DOMAIN calls :
        calls[i].pc = "returned" =>
            /\ calls[i].active = <<>>
            /\ \A id \in ToolIds :
                  CountEvents(calls[i].events, Len(calls[i].events), "tool_end", id)
                     = CountEvents(calls[i].events, Len(calls[i].events), "tool_start", id)

ToolScenario == <<ToolFrame(1), ContentFrame("x"), ContentFrame("y"), FinishFrame>>

\* C10: no tool call is open when a delta is emitted; a tool_end is emitted
\* only for an open call; the open calls are those started and not ended; and
\* the stream tool call, content, content, finish_reason yields tool_start,
\* tool_end, delta, delta and the text of the two deltas.
ToolEndBeforeDelta ==
    \A i \in DOMAIN calls :
        LET es == calls[i].events
            open(n, id) == CountEvents(es, n, "tool_start", id) - CountEvents(es, n, "tool_end", id)
        IN  /\ \A k \in 1..Len(es), id \in ToolIds :
                  /\ open(k, id) \in {0, 1}
                  /\ es[k].type = "delta" => open(k, id) = 0
            /\ \A id \in ToolIds :
                  open(Len(es), id) = 1 <=> \E k \in 1..Len(calls[i].active) : calls[i].active[k] = id
            /\ calls[i].frames = ToolScenario =>
                  /\ SelectSeq(es, LAMBDA e : e.type # "error")
                        = <<Event("tool_start", 1, ""), Event("tool_end", 1, ""),
                            Event("delta", 0, "x"), Event("delta", 0, "y")>>
                  /\ calls[i].fullText = <<"x", "y">>
                  /\ calls[i].pc = "returned" => calls[i].ret = <<"x", "y">>

\* The call over the stream tool call, content, content, finish_reason has
\* returned.
ToolEndBeforeDeltaWitness ==
    /\ Len(calls) = 1
    /\ calls[1].frames = ToolScenario
    /\ calls[1].pc = "returned"
    /\ calls[1].ret = <<"x", "y">>

\* --------------------------------------------- Orchestrator.extractMentions
\* The texts of the examples "@alice check X @bob check Y" and
\* "@alice @alice hi".
ExampleOrdered ==
    <<Alice, Space, "check", Space, "X", Space, Bob, Space, "check", Space, "Y">>

ExampleRepeated == <<Alice, Space, Alice, Space, "hi">>

Tokens == {Master, Alice, Bob, Space, Word, Other}

RECURSIVE TextsOfLen(_)
TextsOfLen(n) ==
    IF n = 0 THEN {<<>>}
    ELSE {Append(t, k) : t \in TextsOfLen(n - 1), k \in Tokens}

Texts ==
    UNION {TextsOfLen(n) : n \in 0..MaxTextLen} \cup {ExampleOrdered, ExampleRepeated}

\* this.extractMentions(text, excludeAgent) is called ...
InitExtract ==
    /\ config \in {[agents |-> as, master |-> Master, maxMentionDepth |-> 0] :
                      as \in {{Master, Alice}, SmallTeam}}
    /\ InitRegistry
    /\ InitConnection(FALSE)
    /\ errorListener = FALSE
    /\ extraction \in {[pc |-> "called", text |-> t, excludeAgent |-> e, mentions |-> <<>>] :
                          t \in Texts, e \in config.agents}

\* ... and returns.
Extract ==
    /\ extraction.pc = "called"
    /\ extraction' = [extraction EXCEPT
                         !.pc = "returned",
                         !.mentions = extractMentions(extraction.text, extraction.excludeAgent)]
    /\ UNCHANGED <<ovars, cvars, pvars, dvars, kvars, bvars, hvars, gvars>>

NextExtract == Extract

SpecExtract == InitExtract /\ [][NextExtract]_vars

Matches(text) == {i \in 1..Len(text) : text[i] \in config.agents}

FirstMatch(text, agent) == Min({i \in Matches(text) : text[i] = agent})

\* m is text[lo..hi] without its leading and trailing white space.
IsTrimOf(m, text, lo, hi) ==
    \E a \in lo..(hi + 1), b \in (lo - 1)..hi :
        /\ m = [k \in 1..(b - a + 1) |-> text[a + k - 1]]
        /\ \A j \in lo..(a - 1) : text[j] = Space
        /\ \A j \in (b + 1)..hi : text[j] = Space
        /\ b >= a => text[a] # Space /\ text[b] # Space

\* C12: the mentions come in the order of the first matches of their
\* agents; the message of each is the text between its match and the next
\* match of any agent name (or the end of the text), trimmed; and
\* "@alice check X @bob check Y" yields alice with "check X", then bob with
\* "check Y".
MentionOrderAndMessage ==
    extraction.pc = "returned" =>
        LET text == extraction.text
            ms == extraction.mentions
        IN  /\ \A k \in 1..Len(ms) : \E i \in Matches(text) : text[i] = ms[k].agent
            /\ \A k, l \in 1..Len(ms) :
                  k < l => FirstMatch(text, ms[k].agent) < FirstMatch(text, ms[l].agent)
            /\ \A k \in 1..Len(ms) :
                  LET i == FirstMatch(text, ms[k].agent)
                      later == {j \in Matches(text) : j > i}
                      end == IF later = {} THEN Len(text) + 1 ELSE Min(later)
                  IN  IsTrimOf(ms[k].message, text, i + 1, end - 1)
            /\ (text = ExampleOrdered /\ extraction.excludeAgent = Master /\ Bob \in config.agents)
                  => ms = <<[agent |-> Alice, message |-> <<"check", Space, "X">>],
                            [agent |-> Bob, message |-> <<"check", Space, "Y">>]>>

\* The call on "@alice check X @bob check Y" over master, alice and bob,
\* excluding master, has returned two mentions.
MentionOrderAndMessageWitness ==
    /\ extraction.pc = "returned"
    /\ extraction.text = ExampleOrdered
    /\ extraction.excludeAgent = Master
    /\ Len(extraction.mentions) = 2

\* C13: every known name other than the excluded one that occurs in the text
\* has exactly one mention in the result; "@alice @alice hi" yields exactly one
\* mention for alice.
OneMentionPerName ==
    extraction.pc = "returned" =>
        LET text == extraction.text
            ms == extraction.mentions
        IN  \A a \in config.agents \ {extraction.excludeAgent} :
                (\E i \in 1..Len(text) : text[i] = a)
                   => Cardinality({k \in 1..Len(ms) : ms[k].agent = a}) = 1

CountType(trace, n, type) == Cardinality({k \in 1..n : trace[k] = type})

\* C11: the parallel_start and parallel_end events of a turn alternate,
\* starting with parallel_start; the targets of a round are the mentions of
\* the coordinator's reply in their order; the results of parallel_end are
\* one per target in that order and are there only when every child has
\* completed; the follow-up names the children that returned text; and once
\* the turn is over every parallel_start has its parallel_end.
ParallelStartEndPaired ==
    /\ \A n \in 0..Len(ev.trace) :
          CountType(ev.trace, n, "parallel_start") - CountType(ev.trace, n, "parallel_end")
             \in {0, 1}
    /\ chat.pc \in {"waiting", "synth"} => chat.kids = chat.wanted /\ chat.kids # <<>>
    /\ chat.results # <<>> =>
          /\ Len(chat.results) = Len(chat.kids)
          /\ \A i \in 1..Len(chat.kids) :
                /\ chat.results[i].agent = chat.kids[i]
                /\ br[<<chat.kids[i]>>].pc \in {"done", "failed"}
                /\ chat.results[i].content = br[<<chat.kids[i]>>].result
    /\ chat.pc \in {"ended", "rejected"} =>
          CountType(ev.trace, Len(ev.trace), "parallel_end")
             = CountType(ev.trace, Len(ev.trace), "parallel_start")

\* C14: a fold-back message goes to the agent of the activation that
\* dispatched the children (the coordinator for chat) and to no other agent;
\* its parts are the children that returned text, in mention order, each
\* with that child's text; a child that returned no text has no part.
FoldBackMessage ==
    /\ chat.pc = "synth" => chat.followUp # NoFollowUp /\ sending[config.master] >= 1
    /\ chat.followUp # NoFollowUp =>
          LET withText == SelectSeq(chat.kids, LAMBDA k : br[<<k>>].result # <<>>)
          IN  /\ chat.followUp.to = config.master
              /\ Len(chat.followUp.parts) = Len(withText)
              /\ \A i \in 1..Len(withText) :
                    /\ chat.followUp.parts[i].agent = withText[i]
                    /\ chat.followUp.parts[i].text = br[<<withText[i]>>].result
    /\ \A p \in DOMAIN br :
          /\ br[p].pc = "synth" => br[p].followUp # NoFollowUp /\ sending[br[p].agent] >= 1
          /\ br[p].followUp # NoFollowUp =>
                LET withText == SelectSeq(br[p].kids,
                                          LAMBDA k : br[Append(p, k)].result # <<>>)
                IN  /\ br[p].followUp.to = p[Len(p)]
                    /\ br[p].followUp.to # br[p].parentAgent
                    /\ Len(br[p].followUp.parts) = Len(withText)
                    /\ \A i \in 1..Len(withText) :
                          /\ br[p].followUp.parts[i].agent = withText[i]
                          /\ br[p].followUp.parts[i].text = br[Append(p, withText[i])].result

\* The first of two root children returned no text; the second sent its own
\* agent a follow-up with the reply of its child; the coordinator was then
\* sent a follow-up with the part of the second child alone.
FoldBackMessageWitness ==
    /\ Len(chat.kids) = 2
    /\ br[<<chat.kids[1]>>].pc = "failed"
    /\ br[<<chat.kids[2]>>].followUp.to = chat.kids[2]
    /\ Len(br[<<chat.kids[2]>>].followUp.parts) = 1
    /\ chat.followUp.to = config.master
    /\ Len(chat.followUp.parts) = 1
    /\ chat.followUp.parts[1].agent = chat.kids[2]

\* C15: once the children of an activation (or of chat) have all completed
\* and at least one of them failed, the follow-up message has been sent to
\* the parent agent.
ChildFailureKeepsSynthesis ==
    /\ (/\ chat.results # <<>>
        /\ \E i \in 1..Len(chat.kids) : br[<<chat.kids[i]>>].pc = "failed")
          => chat.followUp # NoFollowUp
    /\ \A p \in DOMAIN br :
          (/\ br[p].kids # <<>>
           /\ \A i \in 1..Len(br[p].kids) :
                 br[Append(p, br[p].kids[i])].pc \in {"done", "failed"}
           /\ \E i \in 1..Len(br[p].kids) : br[Append(p, br[p].kids[i])].pc = "failed")
             => br[p].followUp # NoFollowUp

\* The step in which the coordinator's reply to a follow-up is handled: the
\* agents found in it are dispatched as a new round when the round limit and
\* the budget allow, and the turn ends otherwise.
RootRescan ==
    (chat.pc = "synth" /\ chat' # chat /\ chat'.pc # "rejected") =>
        IF /\ chat'.wanted # <<>>
           /\ chat.mentionRound < config.maxMentionDepth
           /\ globalMentionCount + Len(chat'.wanted) <= MAX_TOTAL_MENTIONS
        THEN /\ chat'.pc = "waiting"
             /\ chat'.kids = chat'.wanted
             /\ chat'.mentionRound = chat.mentionRound + 1
             /\ ev'.dispatched = ev.dispatched + Len(chat'.wanted)
             /\ globalMentionCount' = globalMentionCount + Len(chat'.wanted)
             /\ ev'.trace = Append(ev.trace, "parallel_start")
        ELSE /\ chat'.pc = "ended"
             /\ ev'.dispatched = ev.dispatched

\* C16 as stated: the reply to a follow-up is scanned at the root and in
\* every nested activation; the mentions found in it are dispatched when
\* depth and budget allow.
SynthesisRescanned ==
    [][/\ RootRescan
       /\ \A p \in DOMAIN br :
             (/\ br[p].pc = "synth"
              /\ p \in DOMAIN br'
              /\ br'[p].pc = "done"
              /\ br'[p].result # br[p].result) =>
                 LET found == SelectSeq(
                                 ExtractFrom(br'[p].result, config.agents, br[p].agent, 1, {}),
                                 LAMBDA m : m.agent \notin br[p].visited \cup {br[p].agent})
                 IN  (/\ found # <<>>
                      /\ br[p].depth < config.maxMentionDepth
                      /\ globalMentionCount + Len(found) <= MAX_TOTAL_MENTIONS)
                        => ev'.dispatched = ev.dispatched + Len(found)]_vars

\* C16 amended: the coordinator's reply to a follow-up is scanned by the loop
\* of chat and the mentions found are dispatched as a new round when the
\* round limit and the budget allow; the reply of a nested activation to its
\* follow-up is not scanned: the activation completes with it (or with its
\* first reply when there is none) and dispatches nothing.
RootSynthesisRescanned ==
    [][/\ RootRescan
       /\ \A p \in DOMAIN br :
             (/\ br[p].pc = "synth"
              /\ p \in DOMAIN br'
              /\ br'[p].pc \notin {"synth", "thrown"}) =>
                 /\ br'[p].pc = "done"
                 /\ br'[p].result # <<>>
                 /\ br'[p].kids = br[p].kids
                 /\ br'[p].wanted = br[p].wanted
                 /\ ev'.dispatched = ev.dispatched
                 /\ globalMentionCount' = globalMentionCount]_vars

\* A second round was dispatched from the coordinator's reply to a
\* follow-up, and in it a nested activation completed after its own follow-up.
RootSynthesisRescannedWitness ==
    /\ chat.mentionRound = 2
    /\ chat.pc = "waiting"
    /\ \E p \in DOMAIN br : br[p].followUp # NoFollowUp /\ br[p].pc = "done"

\* Nothing was sent or dispatched, and no agent but the coordinator was tried.
Quiet ==
    /\ br = <<>>
    /\ ev.dispatched = 0
    /\ globalMentionCount = 0
    /\ \A n \in AllNames : sending[n] = 0
    /\ \A n \in AllNames \ {config.master} :
          checks[n] = 0 /\ n \notin connections /\ n \notin connectingPromises

\* C17: until the coordinator is connected nothing is sent or dispatched and
\* no other agent is tried; when its connection attempt has failed the turn
\* is over, and its events are the error and then 'end'.
CoordinatorConnectFailure ==
    /\ chat.pc \in {"idle", "connecting"} => Quiet /\ ev.trace = <<>>
    /\ (chat.pc \notin {"idle", "connecting"} /\ config.master \notin connections) =>
          /\ chat.pc = "ended"
          /\ ev.trace = <<"error", "end">>
          /\ ev.end = 1
          /\ Quiet

\* The connection attempt of the coordinator failed and the turn ended.
CoordinatorConnectFailureWitness ==
    /\ chat.pc = "ended"
    /\ config.master \notin connections
    /\ checks[config.master] = 0
    /\ ev.trace = <<"error", "end">>

\* C18: in the step in which the connection attempt of an agent fails, the
\* agent stays unconnected; every activation awaiting the attempt ends with
\* no text and the connect error recorded; every other activation that is
\* connecting, sending or settled is left as it is, a waiting one is not
\* rejected, and neither is chat; and the results of parallel_end are the
\* results and errors of the children.
MentionConnectFailure ==
    [][\A n \in AllNames \ {config.master} :
          (checks'[n] < checks[n] /\ n \notin connections') =>
             /\ n \notin connectingPromises'
             /\ DOMAIN br' = DOMAIN br
             /\ \A p \in DOMAIN br :
                   IF br[p].pc = "connecting" /\ br[p].agent = n
                   THEN /\ br'[p].pc = "failed"
                        /\ br'[p].result = <<>>
                        /\ br'[p].error = "Failed to connect"
                   ELSE IF br[p].pc = "waiting"
                   THEN br'[p].pc \in {"waiting", "synth", "done"}
                   ELSE br'[p] = br[p]
             /\ chat.pc = "waiting" => chat'.pc \in {"waiting", "synth", "ended"}
             /\ chat'.results # <<>> =>
                   \A i \in 1..Len(chat'.kids) :
                       /\ chat'.results[i].agent = chat'.kids[i]
                       /\ chat'.results[i].content = br'[<<chat'.kids[i]>>].result
                       /\ chat'.results[i].error = br'[<<chat'.kids[i]>>].error]_vars

\* Of two children of the coordinator the first failed to connect and the
\* second returned text: parallel_end reports both and the follow-up was sent.
MentionConnectFailureWitness ==
    /\ Len(chat.kids) = 2
    /\ Len(chat.results) = 2
    /\ chat.results[1].content = <<>>
    /\ chat.results[1].error = "Failed to connect"
    /\ chat.kids[1] \notin connections
    /\ chat.results[2].content # <<>>
    /\ chat.results[2].error = ""
    /\ chat.pc = "synth"

\* The content deltas of the frames of a stream, in arrival order: the
\* non-empty contents of its parseable frames.
Arrived(frames) ==
    LET withContent == SelectSeq(frames, LAMBDA f : ~f.bad /\ ~Throws(f) /\ f.content # "")
    IN  [k \in 1..Len(withContent) |-> withContent[k].content]

\* C19: a call that returned has returned null exactly when no content
\* delta arrived, and else the deltas in arrival order; the history holds an
\* assistant entry exactly when the call returned text, and its content is
\* the returned text.
ReturnIsAccumulatedText ==
    \A i \in DOMAIN calls :
        LET c == calls[i]
            assistants == SelectSeq(history, LAMBDA e : e.role = "assistant")
        IN  /\ c.pc = "returned" =>
                  /\ c.ret = NoText <=> Arrived(c.frames) = <<>>
                  /\ c.ret # NoText => c.ret = Arrived(c.frames)
                  /\ assistants # <<>> <=> c.ret # NoText
                  /\ c.ret # NoText =>
                        assistants = <<[role |-> "assistant", content |-> c.ret]>>
            /\ c.pc # "returned" => assistants = <<>>

\* A call returned the two deltas that arrived around an unparseable frame,
\* and the history holds them as the assistant entry.
ReturnIsAccumulatedTextWitness ==
    /\ Len(calls) = 1
    /\ calls[1].pc = "returned"
    /\ calls[1].frames = <<ContentFrame("x"), BadFrame, ContentFrame("y")>>
    /\ calls[1].ret = <<"x", "y">>
    /\ history[Len(history)] = [role |-> "assistant", content |-> <<"x", "y">>]

\* C20: a call that failed before a frame was read has returned null, has
\* emitted an error event, and has left the history with its user message
\* and no assistant entry.
FailureBeforeBytes ==
    \A i \in DOMAIN calls :
        LET c == calls[i] IN
        (c.pc \in {"returned", "thrown"} /\ c.frames = <<>> /\ c.events # <<>>) =>
            /\ c.events = <<Event("error", 0, "")>>
            /\ Body = <<[role |-> "user", content |-> c.message]>>
            /\ c.pc = "returned"
            /\ c.ret = NoText

\* C21: a call whose stream broke after frames were read has returned: the
\* text received so far when there is some, with that text appended as the
\* assistant entry, and null with no assistant entry when there is none.
PartialTextKept ==
    \A i \in DOMAIN calls :
        LET c == calls[i]
            broke == \E k \in 1..Len(c.events) : c.events[k].type = "error"
            assistants == SelectSeq(history, LAMBDA e : e.role = "assistant")
        IN  (c.pc \in {"returned", "thrown"} /\ c.frames # <<>> /\ broke) =>
                /\ c.pc = "returned"
                /\ c.ret = c.fullText
                /\ assistants = IF c.fullText = <<>> THEN <<>>
                                ELSE <<[role |-> "assistant", content |-> c.fullText]>>

\* C22: a reachability check answered with an HTTP status below 500 registers
\* the client: ensureConnection returns a connected client, on 429 too.
ReachableBelow500 ==
    [][\A n \in AllNames :
          (checks'[n] < checks[n] /\ probe'.status \in 100..499) =>
              n \in connections']_vars

\* C23: when the reachability check of n fails, every caller awaiting the
\* attempt gets null, n is not registered and its pending attempt is removed;
\* a check starts only in a step in which ensureConnection is called (a new
\* activation for n, or chat for the coordinator), and a call for an agent
\* that is neither connected nor being connected does start one.
ConnectFailureNoRetry ==
    [][\A n \in AllNames :
          /\ (checks'[n] < checks[n] /\ probe'.status \notin 200..299) =>
                /\ n \notin connections'
                /\ n \notin connectingPromises'
                /\ checks'[n] = 0
                /\ \A p \in DOMAIN br :
                      (br[p].pc = "connecting" /\ br[p].agent = n) =>
                          /\ p \in DOMAIN br'
                          /\ br'[p].pc = "failed"
                          /\ br'[p].result = NoText
                /\ (chat.pc = "connecting" /\ n = config.master) => chat'.pc = "ended"
          /\ checks'[n] > checks[n] =>
                \/ chat.pc = "idle" /\ n = config.master
                \/ \E p \in DOMAIN br' :
                      /\ p \notin DOMAIN br \/ chat'.mentionRound # chat.mentionRound
                      /\ br'[p].agent = n
                      /\ br'[p].pc = "connecting"
          /\ \A p \in DOMAIN br' \ DOMAIN br :
                (br'[p].agent = n /\ n \notin connections /\ n \notin connectingPromises) =>
                    /\ checks'[n] = checks[n] + 1
                    /\ n \in connectingPromises'
                    /\ br'[p].pc = "connecting"]_vars

\* The check of bob was answered with 429 and the activation awaiting it
\* returned null; alice then mentioned bob, and that later call has a fresh
\* check in flight.
ConnectFailureNoRetryWitness ==
    /\ probe = [agent |-> Bob, status |-> 429]
    /\ checks[Bob] = 1
    /\ Bob \notin connections
    /\ <<Bob>> \in DOMAIN br /\ br[<<Bob>>].pc = "failed"
    /\ <<Alice, Bob>> \in DOMAIN br /\ br[<<Alice, Bob>>].pc = "connecting"

IsPrefix(a, b) == Len(a) <= Len(b) /\ SubSeq(b, 1, Len(a)) = a

\* C24: after setHistory(getHistory()) on a new connection of the same agent
\* the next sendMessage(m) carries the saved history h followed by the user
\* entry m; and what either connection appends later reaches neither the
\* saved copy nor the other connection.
RestoreRoundTrip ==
    LET old == session.heap[session.history["old"]]
        new == session.heap[session.history["new"]]
        Of(c, hist) == {i \in DOMAIN hist : hist[i].role = "user" /\ hist[i].content[1] = c}
    IN  /\ session.saved # 0 => session.heap[session.saved] = session.h
        /\ session.messages # <<>> =>
               session.messages = Append(session.h, UserEntry("new", 1))
        /\ session.restored =>
               /\ IsPrefix(session.h, new)
               /\ Of("old", new) = Of("old", session.h)
        /\ Of("new", old) = {}

\* The history of two exchanges was saved and restored; both connections
\* have sent since.
RestoreRoundTripWitness ==
    /\ session.restored
    /\ Len(session.h) >= 4
    /\ session.messages # <<>>
    /\ session.sent["new"] = 2
    /\ Len(session.heap[session.history["old"]]) > Len(session.h)

\* C25: in the group chat no routeToAgent runs at a depth above
\* maxMentionDepth, and at most 20 mentions are routed per user message.
GroupRecursionCapped ==
    /\ \A i \in DOMAIN gc.tasks : gc.tasks[i].depth <= config.maxMentionDepth
    /\ gc.globalMentionCount <= 20
    /\ Len(gc.tasks) <= 1 + 2 + 20

\* C26: for every name without identity in the configuration, agent_spawned
\* comes before any message_start from that agent, and it comes at most once.
SpawnedBeforeStart ==
    /\ gc.early = {}
    /\ \A n \in GroupNames : gc.spawned[n] <= 1

\* C27: a task whose saveConfig rejected goes on: the identities it spawned
\* stay in the agent set with their agent_spawned fired, it is never
\* rejected, and once it has routed, every agent it mentioned has its
\* routeToAgent running.
SaveFailureNonFatal ==
    \A i \in DOMAIN gc.tasks :
        LET t == gc.tasks[i] IN
        t.saveFailed > 0 =>
            /\ t.pc \in {"saving", "routed"}
            /\ \A k \in DOMAIN t.made :
                  t.made[k] \in gc.agents /\ gc.spawned[t.made[k]] >= 1
            /\ t.pc = "routed" =>
                  /\ Len(t.kids) = Len(t.targets)
                  /\ \A k \in DOMAIN t.kids :
                        /\ t.kids[k] \in DOMAIN gc.tasks
                        /\ gc.tasks[t.kids[k]].agent = t.targets[k]
                        /\ gc.tasks[t.kids[k]].pc \in {"connecting", "sending", "saving", "routed", "done"}

\* The coordinator mentioned bob and carol; the save of bob was rejected,
\* both were spawned, and both have their message started.
SaveFailureNonFatalWitness ==
    \E i \in DOMAIN gc.tasks :
        LET t == gc.tasks[i] IN
        /\ t.saveFailed = 1
        /\ t.pc = "routed"
        /\ t.targets = <<Bob, Carol>>
        /\ t.made = <<Bob, Carol>>
        /\ {Bob, Carol} \subseteq gc.started
        /\ gc.tasks[t.kids[1]].pc = "sending"

\* C28: when every reachability check and every sendMessage returns, a turn
\* of chat that has started reaches its end, whatever the agents reply.
TurnFinishes == (chat.pc # "idle") ~> (chat.pc = "ended")

\* The turn ended at the round limit: every reply of the coordinator had
\* mentions, the last one too, and agents mentioned agents.
TurnFinishesWitness ==
    /\ chat.pc = "ended"
    /\ config.maxMentionDepth = 2
    /\ chat.mentionRound = 2
    /\ chat.wanted # <<>>
    /\ ev.deepest = 2

\* C29: soft stop.  When the first reply of a branch has child mentions and
\* the branch is at depth >= maxMentionDepth, or dispatching them would take
\* the counter past the cap, none of them is dispatched, the counter stays,
\* no error event is fired and the branch returns the reply itself; chat does
\* the same on the reply of the coordinator.  Otherwise all are dispatched.
SoftStop ==
    [][LET fired == SubSeq(ev'.trace, Len(ev.trace) + 1, Len(ev'.trace))
           Over(n) == globalMentionCount + n > MAX_TOTAL_MENTIONS
       IN  /\ \A p \in DOMAIN br :
                 (br[p].pc = "sending" /\ p \in DOMAIN br' /\ br'[p].wanted # <<>>) =>
                     IF br[p].depth >= config.maxMentionDepth \/ Over(Len(br'[p].wanted))
                     THEN /\ br'[p].kids = <<>>
                          /\ \A q \in DOMAIN br' : Len(q) > Len(p) => SubSeq(q, 1, Len(p)) # p
                          /\ globalMentionCount' = globalMentionCount
                          /\ ev'.dispatched = ev.dispatched
                          /\ \A k \in DOMAIN fired : fired[k] # "error"
                          /\ br'[p].pc = "done"
                          /\ br'[p].error = ""
                          /\ br'[p].result # NoText
                          /\ [k \in 1..Len(br'[p].wanted) |->
                                childMentions(br'[p].result, br[p].agent, br[p].visited)[k].agent]
                                = br'[p].wanted
                     ELSE /\ br'[p].kids = br'[p].wanted
                          /\ globalMentionCount' = globalMentionCount + Len(br'[p].wanted)
           /\ (chat.pc \in {"sending", "synth"} /\ chat'.wanted # <<>>
                 /\ (chat.mentionRound >= config.maxMentionDepth \/ Over(Len(chat'.wanted)))) =>
                     /\ chat'.pc = "ended"
                     /\ globalMentionCount' = globalMentionCount
                     /\ ev'.dispatched = ev.dispatched
                     /\ \A k \in DOMAIN fired : fired[k] # "error"]_vars

\* A branch below the depth limit returned its reply with the mentions in it
\* undispatched: the counter had no room for them.
SoftStopWitness ==
    \E p \in DOMAIN br :
        /\ br[p].pc = "done"
        /\ br[p].wanted # <<>>
        /\ br[p].kids = <<>>
        /\ br[p].depth < config.maxMentionDepth
        /\ globalMentionCount + Len(br[p].wanted) > MAX_TOTAL_MENTIONS

\* The frames of a stream processed one after the other from k on.
RECURSIVE Replay(_, _, _)
Replay(c, frames, k) ==
    IF k > Len(frames) THEN c ELSE Replay(processFrame(c, frames[k]), frames, k + 1)

\* C30: a frame that does not parse, or that has an unexpected shape, is
\* skipped: while the stream is read the text and the delta, tool_start and
\* tool_end events are those of the stream without these frames, and so is
\* the text returned.
MalformedSkipped ==
    \A i \in DOMAIN calls :
        LET c == calls[i]
            good == SelectSeq(c.frames, LAMBDA f : ~f.bad /\ ~Throws(f))
            r == Replay(NewCall(c.message), good, 1)
        IN  /\ c.pc = "stream" => (c.fullText = r.fullText /\ c.events = r.events)
            /\ c.pc = "returned" => c.ret = r.fullText

\* C31: the mention counter of the turn never decreases and always equals
\* the number of branches dispatched so far (thread_start events), whatever
\* the interleaving of the branches.
CounterIsDispatched ==
    [][/\ globalMentionCount = ev.dispatched
       /\ globalMentionCount' >= globalMentionCount
       /\ globalMentionCount' = ev'.dispatched]_vars

\* Two branches of the coordinator have both dispatched children of their
\* own, and one of these is still in flight.
CounterIsDispatchedWitness ==
    /\ globalMentionCount = 4
    /\ ev.dispatched = 4
    /\ \E p, q \in DOMAIN br :
          /\ Len(p) = 2 /\ Len(q) = 2 /\ p[1] # q[1]
          /\ br[p].pc \in {"connecting", "sending"}

\* C32: the visited set of a branch holds the coordinator and the agents of
\* its own lineage above it, whatever its siblings and their descendants
\* visit, and no step changes it; the first reply of a branch wants every
\* agent it mentions outside the branch's own lineage, visited elsewhere or
\* not.
VisitedPerBranch ==
    [][\A p \in DOMAIN br' :
          LET lineage == {config.master} \cup {p[k] : k \in 1..Len(p)} IN
          /\ br'[p].visited = lineage \ {p[Len(p)]}
          /\ (p \in DOMAIN br /\ chat'.mentionRound = chat.mentionRound) =>
                br'[p].visited = br[p].visited
          /\ (p \in DOMAIN br /\ br[p].pc = "sending" /\ br'[p].pc \in {"waiting", "synth", "done"}) =>
                LET ms == extractMentions(br'[p].result, br[p].agent)
                    out == SelectSeq(ms, LAMBDA m : m.agent \notin lineage)
                IN  br'[p].wanted = [k \in 1..Len(out) |-> out[k].agent]]_vars

\* bob was dispatched by the coordinator and again by alice, its sibling.
VisitedPerBranchWitness ==
    /\ <<Bob>> \in DOMAIN br
    /\ <<Alice, Bob>> \in DOMAIN br
    /\ br[<<Alice, Bob>>].visited = {Master, Alice}
    /\ br[<<Bob>>].visited = {Master}

\* C33: getAll returns one buffer per created agent, in the order of first
\* creation; allDone holds exactly when every created agent is done or in
\* error; a repeated create resets the buffer and keeps its position; and an
\* operation naming an agent never created changes nothing.
BufferContract ==
    LET all == getAll(rb)
        known == {rb.created[k] : k \in 1..Len(rb.created)}
    IN  /\ [k \in 1..Len(all) |-> all[k].agent] = rb.created
        /\ \A j, k \in 1..Len(all) : j # k => all[j].agent # all[k].agent
        /\ \A k \in 1..Len(all) : all[k].buffer = rb.buffers[all[k].agent]
        /\ allDone(rb) = (\A a \in known : rb.buffers[a].status \in {"done", "error"})
        /\ \A a \in known :
              LET again == create(rb, a) IN
              /\ [k \in 1..Len(getAll(again)) |-> getAll(again)[k].agent] = rb.created
              /\ again.buffers[a].status = "thinking"
              /\ again.buffers[a].text = <<>>
        /\ \A a \in BufferAgents \ known :
              /\ appendDelta(rb, a, <<"x">>) = rb
              /\ addToolUse(rb, a, "search") = rb
              /\ clearToolUse(rb, a) = rb
              /\ bufferComplete(rb, a, <<"y">>) = rb
              /\ bufferFail(rb, a, "No response") = rb

\* bob was created before alice and created again after it had failed: it
\* is thinking again, still first, and with alice done not all are done.
BufferContractWitness ==
    /\ rb.created = <<Bob, Alice>>
    /\ rb.buffers[Bob].status = "thinking"
    /\ rb.buffers[Bob].error = ""
    /\ rb.buffers[Alice].status = "done"
    /\ ~allDone(rb)

\* C34: every branch that was started (thread_start) ends with its
\* thread_end, on each of its paths, and after the thread_end of the
\* branches it dispatched: no branch is left rejected without thread_end,
\* and a branch that has ended has no child still running.
ThreadStartEndPaired ==
    \A p \in DOMAIN br :
        /\ br[p].pc # "thrown"
        /\ Finished(br[p].pc) =>
              \A k \in 1..Len(br[p].kids) : Finished(br[Append(p, br[p].kids[k])].pc)

\* C35: a chat call that is over has emitted 'end' exactly once, and 'end' is
\* the last event of the turn: once it is emitted no branch and no
\* sendMessage of the turn is still running, and nothing is fired after it.
EndOnceAndLast ==
    /\ ev.end <= 1
    /\ chat.pc \in {"ended", "rejected"} => ev.end = 1
    /\ ev.end = 1 =>
          /\ ev.trace[Len(ev.trace)] = "end"
          /\ \A p \in DOMAIN br : br[p].pc \in {"done", "failed"}
          /\ \A n \in AllNames : sending[n] = 0 /\ checks[n] = 0

\* C36: the deltas an activation puts into its buffer come from its own
\* sendMessage calls only.
DeltasAttributed ==
    \A q \in DOMAIN heard : heard[q] \subseteq {q}

\* C37: after close() has returned and until ensureConnection is called
\* again, no agent is registered as connected.
NoneConnectedAfterClose ==
    closed = EnsureCalls => connections = {}

\* C38: within one sendMessage call tool_start is emitted at most once for
\* each tool-call id.
ToolStartOncePerId ==
    \A i \in DOMAIN calls :
        \A j, k \in DOMAIN calls[i].events :
            /\ calls[i].events[j].type = "tool_start"
            /\ calls[i].events[k].type = "tool_start"
            /\ calls[i].events[j].id = calls[i].events[k].id
            => j = k

\* C39: activeTasks is never negative, it is 0 once the user message has
\* resolved, and isBusy() is true as long as a routeToAgent call of the user
\* message has not completed, the provisioning of an agent included.
BusyWhileRouting ==
    /\ gc.activeTasks >= 0
    /\ (\A i \in DOMAIN gc.tasks : gc.tasks[i].pc \in {"done", "routed"})
          => gc.activeTasks = 0
    /\ (\E i \in DOMAIN gc.tasks :
            /\ gc.tasks[i].agent # User
            /\ gc.tasks[i].pc \in {"connecting", "sending", "saving"})
          => gc.activeTasks > 0

\* The first two parts of C39 alone.
ActiveTasksBalanced ==
    /\ gc.activeTasks >= 0
    /\ (\A i \in DOMAIN gc.tasks : gc.tasks[i].pc \in {"done", "routed"})
          => gc.activeTasks = 0

====
